---- MODULE Spec2Model ----
(***************************************************************************)
(* Model of the Chat2Excel front end (frontend/app.js and the report page  *)
(* script): the SSE read loops, the event dispatcher, the clarification    *)
(* sub-protocol, discovery rendering and the text sanitisation pass.       *)
(*                                                                         *)
(* A text is a sequence of one-character strings.  The newline character   *)
(* is written LF.  A JSON text is abstracted to one character: "A" and "B" *)
(* are the serialised objects of two events, "N" is the JSON literal null, *)
(* "D" is the end sentinel [DONE]; every other payload fails to parse.     *)
(***************************************************************************)
EXTENDS Integers, Sequences, FiniteSets, TLC

VARIABLES
    \* ---- the SSE read loop (sendMessageStream / confirmClarification / generateReport)
    loopKind,       \* "chat": frames split on a blank line; "report": on a newline
    text,           \* the serialised stream the server sends
    pos,            \* how many characters the reader has delivered
    buffer,         \* let buffer
    dispatched,     \* the decoded events handed to the handler, in order
    fpc,            \* "reading" | "done"
    \* ---- one exchange under the dispatcher, and the same events replayed
    path,           \* "chat": handleStreamEvent; "report": handleReportChunk
    draft,          \* streamState of the exchange
    sess,           \* state.pendingClarification / currentReport / currentReportId
    draftR,         \* streamState of the replay, a fresh draft in another session
    sessR,          \* the session state of the replay
    nEvents,        \* events dispatched so far
    errored,        \* an error event has been dispatched
    badComplete,    \* a complete event without report has been dispatched
    clarified,      \* a clarification event has been dispatched
    fold,           \* the reference fold of the events dispatched so far
    draftF,         \* streamState of the same stream without its agent_event
    sessF,          \* and unknown events, and the session state of that run
    nFrameless,     \* how many agent_event and unknown events were dispatched
    \* ---- the chat session
    state,          \* the module-level state object (the fields the exchanges use)
    streams,        \* the exchanges started so far, each with its request and draft
    lastAction,     \* the handler or callback that ran last
    lastText,       \* the text the last send or confirm carried
    lastClar,       \* the clarification event dispatched last
    sinceClar,      \* what the user did since it: "none" | "open" | "emptyOnly" | "closed"
    sendBtnDisabled, \* elements.sendBtn.disabled
    \* ---- renderDiscovery
    page,           \* "app": frontend/app.js; "report": the report page script
    insight,        \* the rendered insight renderDiscovery starts from
    charts,         \* discovery.charts
    insightHtml,    \* let insightHtml
    remainingCharts,\* let remainingCharts / the charts appended to html
    ci,             \* the index of the chart the running loop is at
    dpc,            \* "replace" | "remaining" | "done"
    \* ---- cleanHtmlAndUrls
    source,         \* the text given to cleanHtmlAndUrls
    cleaned,        \* let cleaned, after the passes applied so far
    pass,           \* the number of passes applied
    \* ---- calculateYTicks
    tmax,           \* max, in ten-thousandths
    tcount,         \* count
    niceStep,       \* let niceStep, in ten-thousandths (0: not yet computed)
    ticks,          \* const ticks, in ten-thousandths
    \* ---- the bar chart paths
    barPath,        \* "renderBarChart" | "buildBarOption"
    barData,        \* data
    sortedData,     \* const sortedData
    displayData,    \* displayData
    bpc,            \* "sort" | "limit" | "done"
    \* ---- fixMarkdownTables on a split table
    tableRows,      \* the rows of the table and where each is split
    tableText,      \* text
    mergedText,     \* merged.join('\n')
    fixedText,      \* fixed
    tpc,            \* "merge" | "blank" | "done"
    \* ---- cleanHtmlAndUrls and fixMarkdownTables applied twice
    rtext,          \* the text given
    once,           \* the text repaired
    twice,          \* the repaired text repaired again
    rpc,            \* "start" | "once" | "twice"
    \* ---- the renderers of markdown
    renderer,       \* the function that renders
    rendered,       \* cleanedText, html
    applied,        \* the steps the renderer has run, in order
    \* ---- the line chart paths
    linePath,       \* "renderLineChart" | "buildLineOption"
    lineData,       \* data
    lineSorted,     \* const sortedData
    lineDisplay,    \* displayData
    lpc,            \* "sort" | "sample" | "done"
    \* ---- the domain and the ticks of a y axis
    axPath,         \* the function that draws the chart
    axValues,       \* the values d[f] of the displayed rows and the axis's fields
    maxValue,       \* maxValue, in ten-thousandths
    yTicks,         \* yTicks, in ten-thousandths
    apc,            \* "max" | "ticks" | "done"
    \* ---- the dual-axis chart paths
    dualPath,       \* the function that resolves the chart
    dataSources,    \* config.data_sources
    xField,         \* xField, "" while undefined
    primaryFields,  \* primaryFields
    secondaryFields,\* secondaryFields
    layout,         \* "" | "bar" | "dual"
    dualpc,         \* "groups" | "layout" | "done"
    \* ---- the pie chart paths
    piePath,        \* the function that resolves the chart
    pieData,        \* data
    pieTotal,       \* total
    pieDisplay,     \* displayData
    segments,       \* segments: value, percentage and angle times total
    pieReport,      \* "" | "no-data" | "insufficient" | "rendered"
    ppc,            \* "start" | "finish" | "done"
    \* ---- the fields of a chart
    fieldPath,      \* "parseChartFields" | "renderChartByTypeEnhanced"
    firstRow,       \* data[0]: its keys in order, each with the type of its value
    named,          \* config.data_sources: the x field ("" none) and the y fields named
    resolvedX,      \* xField, "" while undefined
    resolvedY,      \* yFields
    rfpc,           \* "x" | "y" | "done"
    \* ---- the polling of the upload status
    pollingInterval, \* state.pollingInterval: the id of a timer, 0 for null
    activeTimers,   \* the ids of the intervals set and not cleared
    created,        \* how many intervals setInterval has created
    uploadsPending, \* uploads awaiting their response
    uploaded,       \* how many uploads were started
    statusRequests, \* status requests in flight, each with the timer that issued it
    lastCancel      \* the last active timer cleared: which, by what, on whose request

frameVars == <<loopKind, text, pos, buffer, dispatched, fpc>>
dispVars ==
    <<path, draft, sess, draftR, sessR, nEvents, errored, badComplete,
      clarified, fold, draftF, sessF, nFrameless>>
sessVars == <<state, streams, lastAction, lastText, lastClar, sinceClar, sendBtnDisabled>>
discVars == <<page, insight, charts, insightHtml, remainingCharts, ci, dpc>>
cleanVars == <<source, cleaned, pass>>
tickVars == <<tmax, tcount, niceStep, ticks>>
barVars == <<barPath, barData, sortedData, displayData, bpc>>
tableVars == <<tableRows, tableText, mergedText, fixedText, tpc>>
repairVars == <<rtext, once, twice, rpc>>
renderVars == <<renderer, rendered, applied>>
mdVars == <<tableVars, repairVars, renderVars>>
lineVars == <<linePath, lineData, lineSorted, lineDisplay, lpc>>
axisVars == <<axPath, axValues, maxValue, yTicks, apc>>
dualVars == <<dualPath, dataSources, xField, primaryFields, secondaryFields, layout, dualpc>>
pieVars == <<piePath, pieData, pieTotal, pieDisplay, segments, pieReport, ppc>>
fieldVars == <<fieldPath, firstRow, named, resolvedX, resolvedY, rfpc>>
chartVars == <<lineVars, axisVars, dualVars, pieVars, fieldVars>>
pollVars == <<pollingInterval, activeTimers, created, uploadsPending, uploaded, statusRequests, lastCancel>>
pageVars == <<discVars, cleanVars, tickVars, barVars, mdVars, chartVars, pollVars>>
vars == <<frameVars, dispVars, sessVars, pageVars>>

\* ------------------------------------------------------------------ bounds
MaxPieces == 3
MaxEvents == 4
MaxStreams == 2
MaxStreamEvents == 1
MaxInsight == 2
MaxCharts == 2
MaxParts == 3
MaxTickMax == 100
MaxTickCount == 6
MaxRows == 26
MaxTableRows == 2
MaxLineRows == 101
MaxAxisValues == 2
MaxSources == 2
MaxPieRows == 11
MaxNamed == 2
MaxUploads == 2
MaxPolls == 2

\* ------------------------------------------------------------------ texts
LF == "LF"
Marker == <<"d", "a", "t", "a", ":", " ">>
NULL == "null"
NoClarification == [none |-> TRUE]
UNDEFINED == "undefined"

RECURSIVE Flatten(_)
Flatten(ss) == IF ss = <<>> THEN <<>> ELSE Head(ss) \o Flatten(Tail(ss))

\* String.prototype.split with a one- or two-character separator: leftmost,
\* non-overlapping matches; always at least one segment.
RECURSIVE SplitAt(_, _, _, _)
SplitAt(s, sep, start, i) ==
    IF i + Len(sep) - 1 > Len(s) THEN <<SubSeq(s, start, Len(s))>>
    ELSE IF SubSeq(s, i, i + Len(sep) - 1) = sep
         THEN <<SubSeq(s, start, i - 1)>> \o SplitAt(s, sep, i + Len(sep), i + Len(sep))
         ELSE SplitAt(s, sep, start, i + 1)

Split(s, sep) == SplitAt(s, sep, 1, 1)

StartsWith(s, p) == Len(s) >= Len(p) /\ SubSeq(s, 1, Len(p)) = p

\* message.trim() is empty: only white space
IsBlank(s) == \A i \in 1..Len(s) : s[i] \in {LF, " "}

\* JSON.parse: the value, or "throws"
JSONParse(data) ==
    IF data = <<"A">> THEN "evA"
    ELSE IF data = <<"B">> THEN "evB"
    ELSE IF data = <<"N">> THEN NULL
    ELSE "throws"

\* try { event = JSON.parse(data); console.log(event.type); handleStreamEvent(event) }
\* catch (e) { console.error(...) }            (sendMessageStream, confirmClarification)
\* try { chunk = JSON.parse(data); handleReportChunk(chunk) } catch (e) { ... }
\*                                                                   (generateReport)
\* The values one line hands to the handler.  In the chat loops reading the
\* type of null throws before the handler is called.
LineEvents(kind, line) ==
    IF ~StartsWith(line, Marker) THEN <<>>
    ELSE LET data == SubSeq(line, Len(Marker) + 1, Len(line)) IN
         IF data = <<"D">> THEN <<>>
         ELSE IF JSONParse(data) = "throws" THEN <<>>
         ELSE IF kind = "chat" /\ JSONParse(data) = NULL THEN <<>>
         ELSE <<JSONParse(data)>>

\* A loop whose try/catch encloses the whole for loop: the first payload that
\* throws ends the processing of the remaining lines.
RECURSIVE LinesEventsAbort(_, _)
LinesEventsAbort(kind, lines) ==
    IF lines = <<>> THEN <<>>
    ELSE IF StartsWith(Head(lines), Marker)
            /\ SubSeq(Head(lines), Len(Marker) + 1, Len(Head(lines))) # <<"D">>
            /\ LineEvents(kind, Head(lines)) = <<>>
         THEN <<>>
         ELSE LineEvents(kind, Head(lines)) \o LinesEventsAbort(kind, Tail(lines))

\* for (const line of lines) { ... }
RECURSIVE LinesEvents(_, _)
LinesEvents(kind, lines) ==
    IF lines = <<>> THEN <<>>
    ELSE LineEvents(kind, Head(lines)) \o LinesEvents(kind, Tail(lines))

\* for (const message of messages) { if (!message.trim()) continue; ... }
MessageEvents(message) ==
    IF IsBlank(message) THEN <<>> ELSE LinesEvents("chat", Split(message, <<LF>>))

RECURSIVE MessagesEvents(_)
MessagesEvents(ms) ==
    IF ms = <<>> THEN <<>> ELSE MessageEvents(Head(ms)) \o MessagesEvents(Tail(ms))

\* messages.pop() || ''
PopLast(parts) == parts[Len(parts)]
DropLast(parts) == SubSeq(parts, 1, Len(parts) - 1)

\* A read loop that forgets the incomplete last segment (buffer = '').
ChatChunkNoCarry(buf, chunk) ==
    LET messages == Split(buf \o chunk, <<LF, LF>>) IN
    [buffer |-> <<>>, events |-> MessagesEvents(DropLast(messages))]

\* One iteration of the read loop of sendMessageStream / confirmClarification:
\* buffer += chunk; messages = buffer.split('\n\n'); buffer = messages.pop() || ''
ChatChunk(buf, chunk) ==
    LET messages == Split(buf \o chunk, <<LF, LF>>) IN
    [buffer |-> PopLast(messages), events |-> MessagesEvents(DropLast(messages))]

\* One iteration of the read loop of generateReport:
\* buffer += chunk; lines = buffer.split('\n'); buffer = lines.pop() || ''
ReportChunk(buf, chunk) ==
    LET lines == Split(buf \o chunk, <<LF>>) IN
    [buffer |-> PopLast(lines), events |-> LinesEvents("report", DropLast(lines))]

ProcessChunk(kind, buf, chunk) ==
    IF kind = "chat" THEN ChatChunk(buf, chunk) ELSE ReportChunk(buf, chunk)

\* ------------------------------------------------------------------ the dispatcher
\* A text of the draft is a sequence of the deltas appended to it.  The other
\* values are atoms: "undefined" and "null" stand for the two JavaScript values.

Field(e, f) == IF f \in DOMAIN e THEN e[f] ELSE UNDEFINED
Falsy(v) == v \in {UNDEFINED, NULL, ""}
\* v || d
OrElse(v, d) == IF Falsy(v) THEN d ELSE v
\* '' + event.content
Delta(e) == IF "content" \in DOMAIN e THEN e.content ELSE <<UNDEFINED>>

\* const streamState = { thinking: '', content: '', sql: null, data: null, ... }
FreshDraft ==
    [thinking |-> <<>>, content |-> <<>>, sql |-> NULL, data |-> NULL,
     analysis |-> <<>>, isThinking |-> FALSE, isAnalyzing |-> FALSE]

\* state.pendingClarification, state.currentReport, state.currentReportId at load
FreshSession ==
    [pendingClarification |-> NoClarification, currentReport |-> NULL, currentReportId |-> NULL]

WaitingForUser == <<"[wait]">>

\* A snapshot that keeps the rewritten request where the original belongs.
SnapshotRewritten(event) ==
    [rewritten_request |-> OrElse(Field(event, "rewritten_request"), ""),
     original_intent   |-> OrElse(Field(event, "original_intent"), ""),
     original_request  |-> OrElse(Field(event, "rewritten_request"), ""),
     messages_context  |-> OrElse(Field(event, "messages_context"), NULL),
     tool_call_id      |-> OrElse(Field(event, "tool_call_id"), NULL)]

\* case 'clarification': the snapshot kept in state.pendingClarification
Snapshot(event) ==
    [rewritten_request |-> OrElse(Field(event, "rewritten_request"), ""),
     original_intent   |-> OrElse(Field(event, "original_intent"), ""),
     original_request  |-> OrElse(Field(event, "original_request"), ""),
     messages_context  |-> OrElse(Field(event, "messages_context"), NULL),
     tool_call_id      |-> OrElse(Field(event, "tool_call_id"), NULL)]

\* A dispatcher whose content branch looks at the session: a delta that arrives
\* while a clarification is pending is not appended.
HandleContentGated(event, ss, st) ==
    IF st.pendingClarification # NoClarification THEN ss
    ELSE [ss EXCEPT !.content = @ \o Delta(event)]

\* case 'content': streamState.content += event.content
HandleContent(event, ss, st) == [ss EXCEPT !.content = @ \o Delta(event)]

\* An agent event that marks the draft as being analysed.
HandleAgentEventMarks(event, ss, st) ==
    [draft |-> [ss EXCEPT !.isAnalyzing = TRUE], state |-> st]

\* handleAgentEvent(event, container): the monitor panel is written, the draft
\* and the session state are not
HandleAgentEvent(event, ss, st) == [draft |-> ss, state |-> st]

\* handleStreamEvent(event, messageDiv, streamState): the draft and the session
\* state after the event.  The branches that only write the page leave both as
\* they are (agent_event, intent, status, outline, section_start, heartbeat,
\* section_complete, sql_executing, error, done, and a type of no branch).
HandleStreamEvent(event, ss, st) ==
    LET type == Field(event, "type") IN
    CASE type = "agent_event" -> HandleAgentEvent(event, ss, st)
      [] type = "clarification" ->
           [draft |-> [ss EXCEPT !.content = WaitingForUser],
            state |-> [st EXCEPT !.pendingClarification = Snapshot(event)]]
      [] type = "report_created" ->
           [draft |-> ss,
            state |-> [st EXCEPT !.currentReportId = Field(event, "report_id")]]
      [] type = "complete" ->
           IF Falsy(Field(event, "report"))
           THEN [draft |-> ss, state |-> st]
           ELSE [draft |-> ss, state |-> [st EXCEPT !.currentReport = event.report]]
      [] type = "thinking_start" ->
           [draft |-> [ss EXCEPT !.isThinking = TRUE], state |-> st]
      [] type = "thinking" ->
           [draft |-> [ss EXCEPT !.thinking = @ \o Delta(event)], state |-> st]
      [] type = "thinking_end" ->
           [draft |-> [ss EXCEPT !.isThinking = FALSE], state |-> st]
      [] type = "content" ->
           [draft |-> HandleContent(event, ss, st), state |-> st]
      [] type = "sql" ->
           [draft |-> [ss EXCEPT !.sql = Field(event, "sql")], state |-> st]
      [] type = "data" ->
           [draft |-> [ss EXCEPT !.data = Field(event, "data")], state |-> st]
      [] type = "analysis_start" ->
           [draft |-> [ss EXCEPT !.isAnalyzing = TRUE], state |-> st]
      [] type = "analysis" ->
           [draft |-> [ss EXCEPT !.analysis = @ \o Delta(event)], state |-> st]
      [] type = "analysis_end" ->
           [draft |-> [ss EXCEPT !.isAnalyzing = FALSE], state |-> st]
      [] OTHER -> [draft |-> ss, state |-> st]

\* handleReportChunk(chunk, context): generateReport keeps no draft; a complete
\* chunk stores chunk.report whatever it is.
HandleReportChunk(chunk, ss, st) ==
    IF Field(chunk, "type") = "complete"
    THEN [draft |-> ss, state |-> [st EXCEPT !.currentReport = Field(chunk, "report")]]
    ELSE [draft |-> ss, state |-> st]

Handle(p, event, ss, st) ==
    IF p = "chat" THEN HandleStreamEvent(event, ss, st) ELSE HandleReportChunk(event, ss, st)

\* ------------------------------------------------------------------ events
ClarFull ==
    [type |-> "clarification", rewritten_request |-> "rw1", original_intent |-> "in1",
     original_request |-> "or1", messages_context |-> "mc1", tool_call_id |-> "tc1"]
ClarOther ==
    [type |-> "clarification", rewritten_request |-> "rw2", original_intent |-> "in2",
     original_request |-> "or2", messages_context |-> "mc2", tool_call_id |-> "tc2"]
\* no LLM context, an empty tool call id
ClarSparse ==
    [type |-> "clarification", rewritten_request |-> "rw3",
     original_request |-> "or3", messages_context |-> NULL, tool_call_id |-> ""]

ClarEvents == {ClarFull, ClarOther, ClarSparse}

PageOnlyTypes ==
    {"agent_event", "intent", "status", "outline", "section_start", "heartbeat",
     "section_complete", "sql_executing", "error", "done", "sql_executed"}

Events ==
    ClarEvents
    \cup { [type |-> t] : t \in PageOnlyTypes }
    \cup { [type |-> t] : t \in {"thinking_start", "thinking_end",
                                 "analysis_start", "analysis_end"} }
    \cup { [type |-> t, content |-> <<c>>] :
             t \in {"thinking", "content", "analysis"}, c \in {"a", "b"} }
    \cup { [type |-> "content"] }
    \cup { [type |-> "agent_event", event_type |-> "error"] }
    \cup { [type |-> "sql", sql |-> q] : q \in {"q1", "q2"} }
    \cup { [type |-> "data", data |-> d] : d \in {"d1", "d2"} }
    \cup { [type |-> "report_created", report_id |-> "id1"] }
    \cup { [type |-> "complete", report |-> "r1"], [type |-> "complete"] }

\* ------------------------------------------------------------------ the session
\* state.sessionId is localStorage's value or null; the rest as declared.
SessionStart(sid) ==
    [pendingClarification |-> NoClarification, currentReport |-> NULL,
     currentReportId |-> NULL, isLoading |-> FALSE, sessionId |-> sid]

NoEvent == [type |-> "none"]

\* the events the streams of the session carry
SessionEvents ==
    {ClarFull, ClarSparse, [type |-> "content", content |-> <<"a">>], [type |-> "done"]}

\* body: JSON.stringify(requestBody)
PlainRequest(content) ==
    [message |-> content, clarification_response |-> UNDEFINED,
     original_request |-> UNDEFINED, messages_context |-> UNDEFINED,
     tool_call_id |-> UNDEFINED]

ClarificationRequest(content, pending) ==
    [message |-> content, clarification_response |-> content,
     original_request |-> pending.original_request,
     messages_context |-> pending.messages_context,
     tool_call_id |-> pending.tool_call_id]

NewStream(kind, request) ==
    [kind |-> kind, phase |-> "fetch", draft |-> FreshDraft, request |-> request,
     box |-> FALSE, n |-> 0]

Active(s) == s.phase \in {"fetch", "reading"}

SessionInit ==
    /\ state \in {SessionStart(NULL), SessionStart("s1")}
    /\ streams = <<>>
    /\ lastAction = "load"
    /\ lastText = ""
    /\ lastClar = NoEvent
    /\ sinceClar = "none"
    /\ sendBtnDisabled = FALSE

\* uploadFiles: the server's session id is stored
UploadFiles ==
    /\ state.sessionId = NULL
    /\ state' = [state EXCEPT !.sessionId = "s1"]
    /\ lastAction' = "upload" /\ lastText' = ""
    /\ UNCHANGED <<streams, lastClar, sinceClar, sendBtnDisabled>>
    /\ UNCHANGED <<frameVars, dispVars, pageVars>>

\* newSession
NewSession ==
    /\ state.sessionId # NULL
    /\ state' = [state EXCEPT !.sessionId = NULL]
    /\ lastAction' = "newSession" /\ lastText' = ""
    /\ UNCHANGED <<streams, lastClar, sinceClar, sendBtnDisabled>>
    /\ UNCHANGED <<frameVars, dispVars, pageVars>>

\* sendMessage up to the fetch of sendMessageStream.  With an empty input or
\* while loading it returns; without a session it only shows a notice.
SendMessage ==
    /\ ~state.isLoading
    /\ state.sessionId # NULL
    /\ Len(streams) < MaxStreams
    /\ \E content \in {"m"} :
         /\ streams' = Append(streams,
                NewStream("send",
                    IF state.pendingClarification # NoClarification
                    THEN ClarificationRequest(content, state.pendingClarification)
                    ELSE PlainRequest(content)))
         /\ lastText' = content
    /\ state' = [state EXCEPT !.isLoading = TRUE,
                              !.pendingClarification = NoClarification]
    /\ sendBtnDisabled' = TRUE
    /\ lastAction' = "send"
    /\ UNCHANGED <<lastClar, sinceClar>>
    /\ UNCHANGED <<frameVars, dispVars, pageVars>>

\* An end of the request that leaves the flag set.
FinallyKeepsLoading(i) ==
    /\ streams' = [streams EXCEPT ![i].phase = "closed"]
    /\ UNCHANGED <<state, sendBtnDisabled>>

\* try { ... } finally { state.isLoading = false } of sendMessage and of
\* confirmClarification
Finally(i) ==
    /\ streams' = [streams EXCEPT ![i].phase = "closed"]
    /\ state' = [state EXCEPT !.isLoading = FALSE]
    /\ sendBtnDisabled' = IF streams[i].kind = "send" THEN FALSE ELSE sendBtnDisabled

\* the response arrives: response.ok, or not and the request throws
Respond(i) ==
    /\ streams[i].phase = "fetch"
    /\ \/ /\ streams' = [streams EXCEPT ![i].phase = "reading"]
          /\ lastAction' = "response"
          /\ UNCHANGED <<state, sendBtnDisabled>>
       \/ /\ Finally(i)
          /\ lastAction' = "failed"
    /\ lastText' = ""
    /\ UNCHANGED <<lastClar, sinceClar>>
    /\ UNCHANGED <<frameVars, dispVars, pageVars>>

\* the content section of a message shows the clarification box after a
\* clarification event, until a later event rewrites the section
BoxAfter(event, box) ==
    IF event.type = "clarification" THEN TRUE
    ELSE IF event.type = "content" THEN FALSE
    ELSE box

\* one event of a stream reaches handleStreamEvent
StreamEvent(i) ==
    /\ streams[i].phase = "reading"
    /\ streams[i].n < MaxStreamEvents
    /\ \E event \in SessionEvents :
         /\ streams' = [streams EXCEPT
                ![i].draft = HandleStreamEvent(event, streams[i].draft, state).draft,
                ![i].box = BoxAfter(event, streams[i].box),
                ![i].n = @ + 1]
         /\ state' = HandleStreamEvent(event, streams[i].draft, state).state
         /\ lastClar' = IF event.type = "clarification" THEN event ELSE lastClar
         /\ sinceClar' = IF event.type = "clarification" THEN "open" ELSE sinceClar
         /\ lastAction' = event.type
    /\ lastText' = ""
    /\ UNCHANGED sendBtnDisabled
    /\ UNCHANGED <<frameVars, dispVars, pageVars>>

\* reader.read() resolves with done, or rejects
StreamEnd(i) ==
    /\ streams[i].phase = "reading"
    /\ Finally(i)
    /\ lastAction' \in {"ended", "failed"}
    /\ lastText' = ""
    /\ UNCHANGED <<lastClar, sinceClar>>
    /\ UNCHANGED <<frameVars, dispVars, pageVars>>

\* A cancel that leaves the clarification pending.
CancelKeepsPending(i) ==
    /\ streams[i].box
    /\ lastAction' = "cancel" /\ lastText' = ""
    /\ sinceClar' = "closed"
    /\ UNCHANGED <<state, streams, lastClar, sendBtnDisabled>>
    /\ UNCHANGED <<frameVars, dispVars, pageVars>>

\* cancelClarification(), from the cancel button of a displayed box
CancelClarification(i) ==
    /\ streams[i].box
    /\ state' = [state EXCEPT !.pendingClarification = NoClarification]
    /\ lastAction' = "cancel" /\ lastText' = ""
    /\ sinceClar' = "closed"
    /\ UNCHANGED <<streams, lastClar, sendBtnDisabled>>
    /\ UNCHANGED <<frameVars, dispVars, pageVars>>

\* A confirm that sends the request and leaves the clarification pending.
ConfirmKeepsPending(i) ==
    /\ streams[i].box
    /\ state.pendingClarification # NoClarification
    /\ Len(streams) < MaxStreams
    /\ streams' = Append(streams,
           NewStream("confirm", ClarificationRequest("t", state.pendingClarification)))
    /\ state' = [state EXCEPT !.isLoading = TRUE]
    /\ lastAction' = "confirm" /\ lastText' = "t"
    /\ sinceClar' = "closed"
    /\ UNCHANGED <<lastClar, sendBtnDisabled>>
    /\ UNCHANGED <<frameVars, dispVars, pageVars>>

\* confirmClarification(textareaId), from the confirm button of a displayed
\* box, up to its fetch; confirmedContent is the trimmed text of the box
ConfirmClarification(i) ==
    /\ streams[i].box
    /\ \E confirmedContent \in {"", "t"} :
         /\ lastText' = confirmedContent
         /\ IF state.pendingClarification = NoClarification \/ confirmedContent = ""
            THEN /\ UNCHANGED <<state, streams>>
                 /\ sinceClar' = IF confirmedContent = "" /\ sinceClar = "open"
                                 THEN "emptyOnly"
                                 ELSE IF confirmedContent = "" THEN sinceClar
                                 ELSE "closed"
            ELSE /\ Len(streams) < MaxStreams
                 /\ sinceClar' = "closed"
                 /\ streams' = Append(streams,
                        NewStream("confirm",
                            ClarificationRequest(confirmedContent,
                                                 state.pendingClarification)))
                 /\ state' = [state EXCEPT !.pendingClarification = NoClarification,
                                           !.isLoading = TRUE]
    /\ lastAction' = "confirm"
    /\ UNCHANGED <<lastClar, sendBtnDisabled>>
    /\ UNCHANGED <<frameVars, dispVars, pageVars>>

SessionNext ==
    \/ UploadFiles
    \/ NewSession
    \/ SendMessage
    \/ \E i \in 1..Len(streams) : Respond(i)
    \/ \E i \in 1..Len(streams) : StreamEvent(i)
    \/ \E i \in 1..Len(streams) : StreamEnd(i)
    \/ \E i \in 1..Len(streams) : CancelClarification(i)
    \/ \E i \in 1..Len(streams) : ConfirmClarification(i)


\* ------------------------------------------------------------------ one exchange and its replay
\* The replay runs in a session that earlier exchanges have left with a
\* pending clarification and a stored report.
UsedSession ==
    [pendingClarification |-> Snapshot(ClarOther), currentReport |-> "r0",
     currentReportId |-> "id0"]

\* The draft the event sequence stands for: the text fields take the deltas of
\* their own events in arrival order, sql and data the whole value of the
\* latest event; no other event counts.
FreshFold == [thinking |-> <<>>, content |-> <<>>, analysis |-> <<>>, sql |-> NULL, data |-> NULL]

FoldEvent(event, f) ==
    CASE event.type \in {"thinking", "content", "analysis"} ->
           [f EXCEPT ![event.type] = @ \o Delta(event)]
      [] event.type \in {"sql", "data"} ->
           [f EXCEPT ![event.type] = Field(event, event.type)]
      [] OTHER -> f

\* the types the switch of handleStreamEvent has a case for
KnownTypes ==
    {"agent_event", "intent", "clarification", "report_created", "status", "outline",
     "section_start", "heartbeat", "section_complete", "complete", "thinking_start",
     "thinking", "thinking_end", "content", "sql", "sql_executing", "data",
     "analysis_start", "analysis", "analysis_end", "error", "done"}

\* agent_event, and the types of no case
Frameless == {"agent_event"} \cup ({e.type : e \in Events} \ KnownTypes)

DispInit ==
    /\ path \in {"chat", "report"}
    /\ draft = FreshDraft /\ sess = FreshSession
    /\ draftR = FreshDraft /\ sessR = UsedSession
    /\ nEvents = 0 /\ errored = FALSE /\ badComplete = FALSE
    /\ clarified = FALSE /\ fold = FreshFold
    /\ draftF = FreshDraft /\ sessF = FreshSession /\ nFrameless = 0

\* One event of the stream, dispatched to the exchange and to its replay.
Dispatch ==
    /\ nEvents < MaxEvents
    /\ \E event \in Events :
         /\ draft' = Handle(path, event, draft, sess).draft
         /\ sess' = Handle(path, event, draft, sess).state
         /\ draftR' = Handle(path, event, draftR, sessR).draft
         /\ sessR' = Handle(path, event, draftR, sessR).state
         /\ errored' = (errored \/ event.type = "error")
         /\ badComplete' = (badComplete
                              \/ (event.type = "complete" /\ Falsy(Field(event, "report"))))
         /\ clarified' = (clarified \/ event.type = "clarification")
         /\ fold' = FoldEvent(event, fold)
         /\ IF event.type \in Frameless
              THEN /\ UNCHANGED <<draftF, sessF>>
                   /\ nFrameless' = nFrameless + 1
              ELSE /\ draftF' = Handle(path, event, draftF, sessF).draft
                   /\ sessF' = Handle(path, event, draftF, sessF).state
                   /\ nFrameless' = nFrameless
    /\ nEvents' = nEvents + 1
    /\ UNCHANGED path
    /\ UNCHANGED <<frameVars, sessVars, pageVars>>

\* ------------------------------------------------------------------ stream texts
Line(payload) == Marker \o payload \o <<LF>>
Pieces == { Line(<<"A">>), Line(<<"B">>), Line(<<"x">>), Line(<<"D">>), Line(<<"N">>),
            <<LF>>, <<"x">> }

PieceSeqs == UNION { [1..n -> Pieces] : n \in 0..MaxPieces }
Texts == { Flatten(ps) : ps \in PieceSeqs }

\* ------------------------------------------------------------------ the read loop
FramesInit ==
    /\ loopKind \in {"chat", "report"}
    /\ text \in Texts
    /\ pos = 0
    /\ buffer = <<>>
    /\ dispatched = <<>>
    /\ fpc = "reading"

\* const { done, value } = await reader.read(); with done = false
ReadChunk ==
    /\ fpc = "reading"
    /\ pos < Len(text)
    /\ \E k \in 1..(Len(text) - pos) :
       \E r \in {ProcessChunk(loopKind, buffer, SubSeq(text, pos + 1, pos + k))} :
         /\ pos' = pos + k
         /\ buffer' = r.buffer
         /\ dispatched' = dispatched \o r.events
    /\ UNCHANGED <<loopKind, text, fpc>>
    /\ UNCHANGED <<dispVars, sessVars, pageVars>>

\* reader.read() returns done = true: break
ReadDone ==
    /\ fpc = "reading"
    /\ pos = Len(text)
    /\ fpc' = "done"
    /\ UNCHANGED <<loopKind, text, pos, buffer, dispatched>>
    /\ UNCHANGED <<dispVars, sessVars, pageVars>>

\* ------------------------------------------------------------------ renderDiscovery

\* An element of the rendered insight or of the output: a run of text, a
\* {{CHART:name}} token, or the HTML of the chart charts[c] with the id
\* attribute id (<<>> when the HTML carries no id).
TextItem == [k |-> "text", name |-> "", c |-> 0, id |-> <<>>]
TokenItem(name) == [k |-> "token", name |-> name, c |-> 0, id |-> <<>>]
ChartItem(c, id) == [k |-> "chart", name |-> "", c |-> c, id |-> id]

ChartIds == {"c1", "a&b"}

\* div.textContent = text; return div.innerHTML
EscapeHtml(t) == IF t = "a&b" THEN "a&amp;b" ELSE t

\* `{{CHART:${chartId}}}`
Placeholder(chartId) == TokenItem(chartId)

EscapedPlaceholder(chartId) == TokenItem(EscapeHtml(chartId))

ChartValues ==
    [chart_id : ChartIds, error : {UNDEFINED, "boom"}, rows : 0..1]

RenderChartEnhanced(chart, c) ==
    IF ~Falsy(chart.error) THEN ChartItem(c, <<>>)
    ELSE IF chart.rows = 0 THEN ChartItem(c, <<>>)
    ELSE ChartItem(c, <<"chart", chart.chart_id>>)

RenderChartContainer(chart, c, chartId) == ChartItem(c, chartId)

\* `chart-${index}-${cIndex}`, for the discovery of index 0
ContainerId(c) == <<"chart", 0, c - 1>>

\* String.prototype.includes
Includes(html, item) == \E j \in 1..Len(html) : html[j] = item

IncludesId(html, id) ==
    \E j \in 1..Len(html) : html[j].k = "chart" /\ html[j].id = id

\* String.prototype.replace with a string pattern: the first occurrence only
ReplaceFirst(html, item, by) ==
    IF ~Includes(html, item) THEN html
    ELSE LET j == CHOOSE j \in 1..Len(html) :
                      html[j] = item /\ \A h \in 1..(j - 1) : html[h] # item
         IN [html EXCEPT ![j] = by]

\* one iteration of the loop that replaces the placeholders
ReplacePlaceholder(p, html, chart, c) ==
    IF p = "app"
    THEN LET chartHtml == RenderChartEnhanced(chart, c)
         IN ReplaceFirst(ReplaceFirst(html, Placeholder(chart.chart_id), chartHtml),
                         EscapedPlaceholder(chart.chart_id), chartHtml)
    ELSE LET chartId == OrElse(chart.chart_id, ContainerId(c))
             chartHtml == RenderChartContainer(chart, c, ContainerId(c))
         IN IF Includes(html, Placeholder(chartId))
            THEN ReplaceFirst(html, Placeholder(chartId), chartHtml)
            ELSE IF Includes(html, EscapedPlaceholder(chartId))
            THEN ReplaceFirst(html, EscapedPlaceholder(chartId), chartHtml)
            ELSE html

\* one iteration of the loop that appends the charts not yet in the insight
RemainingChart(p, html, chart, c) ==
    IF p = "app"
    THEN (IF ~IncludesId(html, <<"chart", chart.chart_id>>)
          THEN <<RenderChartEnhanced(chart, c)>> ELSE <<>>)
    ELSE (IF ~IncludesId(html, ContainerId(c))
          THEN <<RenderChartContainer(chart, c, ContainerId(c))>> ELSE <<>>)

InsightItems == {TextItem} \cup {TokenItem(n) : n \in ChartIds}

SeqsUpTo(S, n) == UNION {[1..m -> S] : m \in 0..n}

DiscoveryInit ==
    /\ page \in {"app", "report"}
    /\ insight \in SeqsUpTo(InsightItems, MaxInsight)
    /\ charts \in SeqsUpTo(ChartValues, MaxCharts)
    /\ insightHtml = insight
    /\ remainingCharts = <<>>
    /\ ci = 1
    /\ dpc = IF charts = <<>> THEN "done" ELSE "replace"

ReplaceStep ==
    /\ dpc = "replace"
    /\ insightHtml' = ReplacePlaceholder(page, insightHtml, charts[ci], ci)
    /\ IF ci < Len(charts)
          THEN ci' = ci + 1 /\ dpc' = dpc
          ELSE ci' = 1 /\ dpc' = "remaining"
    /\ UNCHANGED <<page, insight, charts, remainingCharts>>
    /\ UNCHANGED <<frameVars, dispVars, sessVars, pollVars, cleanVars, tickVars, barVars, mdVars, chartVars>>

RemainingStep ==
    /\ dpc = "remaining"
    /\ remainingCharts' =
          remainingCharts \o RemainingChart(page, insightHtml, charts[ci], ci)
    /\ IF ci < Len(charts)
          THEN ci' = ci + 1 /\ dpc' = dpc
          ELSE ci' = ci /\ dpc' = "done"
    /\ UNCHANGED <<page, insight, charts, insightHtml>>
    /\ UNCHANGED <<frameVars, dispVars, sessVars, pollVars, cleanVars, tickVars, barVars, mdVars, chartVars>>

\* the output of renderDiscovery: the insight, then the appended charts
Output == insightHtml \o remainingCharts

\* ------------------------------------------------------------------ cleanHtmlAndUrls

TAB == "TAB"
QUOTE == "QUOTE"
LowerCase ==
    <<"a", "b", "c", "d", "e", "f", "g", "h", "i", "j", "k", "l", "m",
      "n", "o", "p", "q", "r", "s", "t", "u", "v", "w", "x", "y", "z">>
UpperCase ==
    <<"A", "B", "C", "D", "E", "F", "G", "H", "I", "J", "K", "L", "M",
      "N", "O", "P", "Q", "R", "S", "T", "U", "V", "W", "X", "Y", "Z">>
Letters == {LowerCase[n] : n \in DOMAIN LowerCase} \cup {UpperCase[n] : n \in DOMAIN UpperCase}
Digits == {"0", "1", "2", "3", "4", "5", "6", "7", "8", "9"}
\* the characters \s matches, of those a text may hold here
Whitespace == {" ", TAB, LF}

\* the character at i, or "" past the end
At(s, i) == IF i \in 1..Len(s) THEN s[i] ELSE ""

Lower(c) ==
    IF \E n \in DOMAIN UpperCase : UpperCase[n] = c
    THEN LowerCase[CHOOSE n \in DOMAIN UpperCase : UpperCase[n] = c]
    ELSE c

\* the literal lit stands at i; ic: the i flag of the expression
LitAt(s, i, lit, ic) ==
    \A n \in 1..Len(lit) :
        IF ic THEN Lower(At(s, i + n - 1)) = lit[n] ELSE At(s, i + n - 1) = lit[n]

\* the index of the first c at or after i, 0 when there is none
FirstAt(s, i, c) ==
    IF \E j \in i..Len(s) : s[j] = c
    THEN CHOOSE j \in i..Len(s) : s[j] = c /\ \A h \in i..(j - 1) : s[h] # c
    ELSE 0

\* the index of the first occurrence of lit at or after i, 0 when there is none
FirstLitAt(s, i, lit, ic) ==
    IF \E j \in i..Len(s) : LitAt(s, j, lit, ic)
    THEN CHOOSE j \in i..Len(s) :
             LitAt(s, j, lit, ic) /\ \A h \in i..(j - 1) : ~LitAt(s, h, lit, ic)
    ELSE 0

\* the last index of the longest run from i of characters in S (i - 1: no run)
RECURSIVE RunIn(_, _, _)
RunIn(s, i, S) ==
    IF i <= Len(s) /\ s[i] \in S THEN RunIn(s, i + 1, S) ELSE i - 1

\* the last index of the longest run from i of characters outside S
RECURSIVE RunNotIn(_, _, _)
RunNotIn(s, i, S) ==
    IF i <= Len(s) /\ s[i] \notin S THEN RunNotIn(s, i + 1, S) ELSE i - 1

Https == <<"h", "t", "t", "p", "s", ":", "/", "/">>
Http == <<"h", "t", "t", "p", ":", "/", "/">>
SteamFilter == <<"s", "t", "e", "a", "m", "c", "o", "m", "m", "u", "n", "i", "t", "y", ".", "c", "o", "m", "/", "l", "i", "n", "k", "f", "i", "l", "t", "e", "r", "/", "?", "u", "r", "l", "=">>
FileScheme == <<"f", "i", "l", "e", ":", "/", "/", "/">>
AnchorClose == <<"<", "/", "a", ">">>
Percent22 == <<"%", "2", "2">>
Percent27 == <<"%", "2", "7">>

\* (strong|b|i|em|u|span|div|p|br|ul|li|ol|h[1-6])
CommonTags ==
    {<<"s", "t", "r", "o", "n", "g">>, <<"b">>, <<"i">>, <<"e", "m">>, <<"u">>, <<"s", "p", "a", "n">>,
     <<"d", "i", "v">>, <<"p">>, <<"b", "r">>, <<"u", "l">>, <<"l", "i">>,
     <<"o", "l">>}
    \cup {<<"h", d>> : d \in {"1", "2", "3", "4", "5", "6"}}

\* https?:\/\/ at i: the index of its last character, 0 when it does not match
SchemeEnd(s, i, ic) ==
    IF LitAt(s, i, Https, ic) THEN i + Len(Https) - 1
    ELSE IF LitAt(s, i, Http, ic) THEN i + Len(Http) - 1
    ELSE 0

\* the passes of cleanHtmlAndUrls, in the order of the chain
Passes ==
    <<"anchor", "anchorOpen", "anchorClose", "commonOpen", "commonClose",
      "anyOpen", "anyClose", "steam", "file", "url", "mdLink", "dquoted",
      "squoted", "pct22", "pct27", "entity", "numEntity", "spaces",
      "newlines", "trim">>

\* <a\s+[^>]*> at i: the index of its >, 0 when it does not match
AnchorOpenEnd(s, i) ==
    IF At(s, i) = "<" /\ Lower(At(s, i + 1)) = "a" /\ At(s, i + 2) \in Whitespace
    THEN FirstAt(s, i + 3, ">")
    ELSE 0

\* scheme, then one or more characters outside S: the index of the last one
UrlEnd(s, i, ic, S) ==
    LET e == SchemeEnd(s, i, ic)
    IN IF e = 0 THEN 0
       ELSE LET r == RunNotIn(s, e + 1, S) IN IF r > e THEN r ELSE 0

\* quote, scheme, one or more characters that are not the quote, quote
QuotedEnd(s, i, q) ==
    IF At(s, i) # q THEN 0
    ELSE LET e == SchemeEnd(s, i + 1, FALSE)
         IN IF e = 0 THEN 0
            ELSE LET c == FirstAt(s, e + 1, q) IN IF c > e + 1 THEN c ELSE 0

\* \[([^\]]*)\]\([^)]+\) at i: the indices of ] and of the closing )
LinkClose(s, i) == IF At(s, i) = "[" THEN FirstAt(s, i + 1, "]") ELSE 0

LinkEnd(s, i) ==
    LET b == LinkClose(s, i)
    IN IF b = 0 \/ At(s, b + 1) # "(" THEN 0
       ELSE LET c == FirstAt(s, b + 2, ")") IN IF c > b + 2 THEN c ELSE 0

\* the index of the last character of the match of pass p that starts at i,
\* 0 when the expression of p does not match at i
MatchEnd(p, s, i) ==
    CASE p = "anchor" ->
           LET o == AnchorOpenEnd(s, i)
           IN IF o = 0 THEN 0
              ELSE LET c == FirstLitAt(s, o + 1, AnchorClose, TRUE)
                   IN IF c = 0 THEN 0 ELSE c + Len(AnchorClose) - 1
      [] p = "anchorOpen" -> AnchorOpenEnd(s, i)
      [] p = "anchorClose" ->
           IF LitAt(s, i, AnchorClose, TRUE) THEN i + Len(AnchorClose) - 1 ELSE 0
      [] p = "commonOpen" ->
           IF At(s, i) = "<" /\ \E t \in CommonTags : LitAt(s, i + 1, t, TRUE)
           THEN FirstAt(s, i + 1, ">") ELSE 0
      [] p = "commonClose" ->
           IF At(s, i) = "<" /\ At(s, i + 1) = "/"
              /\ \E t \in CommonTags :
                    LitAt(s, i + 2, t, TRUE) /\ At(s, i + 2 + Len(t)) = ">"
           THEN FirstAt(s, i + 2, ">") ELSE 0
      [] p = "anyOpen" ->
           IF At(s, i) = "<" /\ At(s, i + 1) \in Letters
           THEN FirstAt(s, i + 2, ">") ELSE 0
      [] p = "anyClose" ->
           IF At(s, i) = "<" /\ At(s, i + 1) = "/" /\ At(s, i + 2) \in Letters
           THEN LET r == RunIn(s, i + 2, Letters)
                IN IF At(s, r + 1) = ">" THEN r + 1 ELSE 0
           ELSE 0
      [] p = "steam" ->
           LET e == SchemeEnd(s, i, TRUE)
           IN IF e = 0 \/ ~LitAt(s, e + 1, SteamFilter, TRUE) THEN 0
              ELSE LET f == e + Len(SteamFilter)
                       r == RunNotIn(s, f + 1, Whitespace \cup {"<", ">", QUOTE, "'", "]"})
                   IN IF r > f THEN r ELSE 0
      [] p = "file" ->
           IF ~LitAt(s, i, FileScheme, TRUE) THEN 0
           ELSE LET f == i + Len(FileScheme) - 1
                    r == RunNotIn(s, f + 1, Whitespace \cup {"<", ">", ")", QUOTE, "]"})
                IN IF r > f THEN r ELSE 0
      [] p = "url" ->
           UrlEnd(s, i, FALSE, Whitespace \cup {"<", ">", "[", "]", "(", ")", "'", QUOTE})
      [] p = "mdLink" -> LinkEnd(s, i)
      [] p = "dquoted" -> QuotedEnd(s, i, QUOTE)
      [] p = "squoted" -> QuotedEnd(s, i, "'")
      [] p = "pct22" -> IF LitAt(s, i, Percent22, FALSE) THEN i + 2 ELSE 0
      [] p = "pct27" -> IF LitAt(s, i, Percent27, FALSE) THEN i + 2 ELSE 0
      [] p = "entity" ->
           IF At(s, i) = "&" /\ At(s, i + 1) \in Letters
           THEN LET r == RunIn(s, i + 1, Letters)
                IN IF At(s, r + 1) = ";" THEN r + 1 ELSE 0
           ELSE 0
      [] p = "numEntity" ->
           IF At(s, i) = "&" /\ At(s, i + 1) = "#" /\ At(s, i + 2) \in Digits
           THEN LET r == RunIn(s, i + 2, Digits)
                IN IF At(s, r + 1) = ";" THEN r + 1 ELSE 0
           ELSE 0
      [] p = "spaces" ->
           IF At(s, i) \in {" ", TAB} THEN RunIn(s, i, {" ", TAB}) ELSE 0
      [] p = "newlines" ->
           LET r == RunIn(s, i, {LF}) IN IF r >= i + 2 THEN r ELSE 0
      [] OTHER -> 0

\* what pass p puts in place of its match s[i..e]
Replacement(p, s, i, e) ==
    CASE p = "mdLink" -> SubSeq(s, i + 1, LinkClose(s, i) - 1)
      [] p \in {"entity", "numEntity", "spaces"} -> <<" ">>
      [] p = "newlines" -> <<LF, LF>>
      [] OTHER -> <<>>

\* String.prototype.replace with a g expression, from index i on
RECURSIVE ReplaceAll(_, _, _)
ReplaceAll(p, s, i) ==
    IF i > Len(s) THEN <<>>
    ELSE LET e == MatchEnd(p, s, i)
         IN IF e = 0 THEN <<s[i]>> \o ReplaceAll(p, s, i + 1)
            ELSE Replacement(p, s, i, e) \o ReplaceAll(p, s, e + 1)

\* String.prototype.trim
RECURSIVE Trim(_)
Trim(s) ==
    IF s = <<>> THEN s
    ELSE IF Head(s) \in Whitespace THEN Trim(Tail(s))
    ELSE IF s[Len(s)] \in Whitespace THEN Trim(SubSeq(s, 1, Len(s) - 1))
    ELSE s

ApplyPass(p, s) == IF p = "trim" THEN Trim(s) ELSE ReplaceAll(p, s, 1)

RECURSIVE ApplyPasses(_, _)
ApplyPasses(n, s) ==
    IF n = 0 THEN s ELSE ApplyPass(Passes[n], ApplyPasses(n - 1, s))

\* function cleanHtmlAndUrls(text)
CleanHtmlAndUrls(t) == IF t = <<>> THEN <<>> ELSE ApplyPasses(Len(Passes), t)

\* the fragments the texts given to cleanHtmlAndUrls are made of
Parts ==
    {<<"<">>, <<"<", "x", ">">>, <<"b", ">">>, <<"a", " ", "h", ">">>,
     AnchorClose, Percent22, Http \o <<"u">>, <<"&", "l", "t", ";">>,
     <<" ">>, <<"[", "b", "]", "(", "u", ")">>, <<LF>>}

CleanInit ==
    /\ source \in {Flatten(ps) : ps \in SeqsUpTo(Parts, MaxParts)}
    /\ cleaned = source
    /\ pass = IF source = <<>> THEN Len(Passes) ELSE 0

CleanPass ==
    /\ pass < Len(Passes)
    /\ cleaned' = ApplyPass(Passes[pass + 1], cleaned)
    /\ pass' = pass + 1
    /\ UNCHANGED source
    /\ UNCHANGED <<frameVars, dispVars, sessVars, pollVars, discVars, tickVars, barVars, mdVars, chartVars>>

\* ------------------------------------------------------------------ fixMarkdownTables
PIPE == "|"
Dashes == <<"-", "-", "-">>

\* [-:\s|]
SeparatorChars == {"-", ":", PIPE} \cup Whitespace

\* [。！？.!?]
SentenceEnd == {".", "!", "?"}

\* /^\|[-:\s|]+\|$/.test(t)
IsSeparatorRow(t) ==
    /\ Len(t) >= 3
    /\ t[1] = PIPE
    /\ t[Len(t)] = PIPE
    /\ \A n \in 2..(Len(t) - 1) : t[n] \in SeparatorChars

\* /^\|\s*[^|]+\s*\|$/.test(t)
IsLoneCell(t) ==
    /\ Len(t) >= 3
    /\ t[1] = PIPE
    /\ t[Len(t)] = PIPE
    /\ \A n \in 2..(Len(t) - 1) : t[n] # PIPE

\* (t.match(/\|/g) || []).length
CountPipes(t) == Cardinality({n \in 1..Len(t) : t[n] = PIPE})

EndsWithPipe(t) == t # <<>> /\ t[Len(t)] = PIPE

\* t.includes('---')
IncludesDashes(t) == FirstLitAt(t, 1, Dashes, FALSE) # 0

RECURSIVE TrimEnd(_)
TrimEnd(t) ==
    IF t # <<>> /\ t[Len(t)] \in Whitespace THEN TrimEnd(SubSeq(t, 1, Len(t) - 1)) ELSE t

RECURSIVE TrimStart(_)
TrimStart(t) == IF t # <<>> /\ Head(t) \in Whitespace THEN TrimStart(Tail(t)) ELSE t

\* the column count of the first separator row from line n on, 0 without one
RECURSIVE ExpectedColsFrom(_, _)
ExpectedColsFrom(lines, n) ==
    IF n > Len(lines) THEN 0
    ELSE IF IsSeparatorRow(Trim(lines[n])) THEN CountPipes(Trim(lines[n])) - 1
    ELSE ExpectedColsFrom(lines, n + 1)

ExpectedCols(lines) == ExpectedColsFrom(lines, 1)

\* const isComplete
IsComplete(t, expectedCols) == EndsWithPipe(t) /\ CountPipes(t) - 1 = expectedCols

\* the inner while loop: the lines from j on joined to combined; the result is
\* the combined row and the index of the line to go on with
RECURSIVE Combine(_, _, _, _)
Combine(lines, j, combined, expectedCols) ==
    IF j > Len(lines) THEN [combined |-> combined, j |-> j]
    ELSE LET nextLine == Trim(lines[j])
         IN IF nextLine = <<>> THEN Combine(lines, j + 1, combined, expectedCols)
            ELSE IF IsSeparatorRow(nextLine) THEN [combined |-> combined, j |-> j]
            ELSE IF StartsWith(nextLine, <<PIPE>>)
                 THEN LET joined ==
                              IF EndsWithPipe(combined)
                              THEN TrimEnd(SubSeq(combined, 1, Len(combined) - 1))
                                     \o <<" ">> \o TrimStart(Tail(nextLine))
                              ELSE TrimEnd(combined) \o <<" ">> \o TrimStart(nextLine)
                      IN IF IsComplete(joined, expectedCols)
                         THEN [combined |-> joined, j |-> j + 1]
                         ELSE Combine(lines, j + 1, joined, expectedCols)
            ELSE Combine(lines, j + 1,
                         TrimEnd(combined) \o <<" ">> \o TrimStart(nextLine), expectedCols)

\* the outer while loop from line n on
RECURSIVE MergeFrom(_, _, _, _)
MergeFrom(lines, n, mergedLines, expectedCols) ==
    IF n > Len(lines) THEN mergedLines
    ELSE LET line == lines[n]
             trimmed == Trim(line)
             prevLine == Trim(mergedLines[Len(mergedLines)])
             nextTrimmed == Trim(lines[n + 1])
         IN IF /\ IsLoneCell(trimmed) /\ mergedLines # <<>>
               /\ CountPipes(trimmed) - 1 = 1 /\ ~IncludesDashes(trimmed)
               /\ ~EndsWithPipe(prevLine) /\ Len(prevLine) > 0
            THEN MergeFrom(lines, n + 1,
                           [mergedLines EXCEPT ![Len(mergedLines)] =
                                prevLine \o <<" ">> \o trimmed],
                           expectedCols)
            ELSE IF StartsWith(trimmed, <<PIPE>>) /\ expectedCols > 0
            THEN IF IsSeparatorRow(trimmed) \/ IsComplete(trimmed, expectedCols)
                 THEN MergeFrom(lines, n + 1, Append(mergedLines, trimmed), expectedCols)
                 ELSE LET r == Combine(lines, n + 1, trimmed, expectedCols)
                      IN MergeFrom(lines, r.j, Append(mergedLines, r.combined), expectedCols)
            ELSE IF /\ n + 1 <= Len(lines)
                    /\ IsLoneCell(nextTrimmed) /\ ~IncludesDashes(nextTrimmed)
                    /\ ~StartsWith(trimmed, <<PIPE>>) /\ ~EndsWithPipe(trimmed)
                    /\ Len(trimmed) > 0
            THEN MergeFrom(lines, n + 2,
                           Append(mergedLines, trimmed \o <<" ">> \o nextTrimmed),
                           expectedCols)
            ELSE MergeFrom(lines, n + 1, Append(mergedLines, line), expectedCols)

\* Array.prototype.join('\n')
RECURSIVE JoinLines(_)
JoinLines(lines) ==
    IF lines = <<>> THEN <<>>
    ELSE IF Len(lines) = 1 THEN lines[1]
    ELSE lines[1] \o <<LF>> \o JoinLines(Tail(lines))

\* merged.join('\n') after the while loop
MergeLines(t) ==
    LET lines == Split(t, <<LF>>)
    IN JoinLines(MergeFrom(lines, 1, <<>>, ExpectedCols(lines)))

\* the three replacements that put blank lines around a table
BlankPasses == <<"afterSentence", "beforeTable", "afterTable">>

\* the index of the LF that ends the line of s[i], Len(s) + 1 on the last line
LineEnd(s, i) == IF FirstAt(s, i, LF) = 0 THEN Len(s) + 1 ELSE FirstAt(s, i, LF)

\* the last index of the match of \|[-:\s|]+\| at i, 0 when there is none
SeparatorEnd(s, i) ==
    IF At(s, i) # PIPE THEN 0
    ELSE LET r == RunIn(s, i + 1, SeparatorChars)
         IN IF \E q \in (i + 2)..r : s[q] = PIPE
            THEN CHOOSE q \in (i + 2)..r :
                     s[q] = PIPE /\ \A h \in (q + 1)..r : s[h] # PIPE
            ELSE 0

\* the last index of the match of blank pass p at i, 0 when there is none
BlankMatchEnd(p, s, i) ==
    CASE p = "afterSentence" ->
           IF At(s, i) \in SentenceEnd
           THEN LET r == RunIn(s, i + 1, {" ", TAB})
                IN IF At(s, r + 1) = PIPE THEN r + 1 ELSE 0
           ELSE 0
      [] p = "beforeTable" ->
           IF At(s, i) \in {"", LF, PIPE} THEN 0
           ELSE LET r == RunIn(s, i + 1, {" ", TAB})
                    m == LineEnd(s, r + 2)
                IN IF /\ At(s, r + 1) = LF /\ At(s, r + 2) = PIPE
                      /\ m <= Len(s) /\ m - 1 >= r + 4 /\ s[m - 1] = PIPE
                   THEN SeparatorEnd(s, m + 1)
                   ELSE 0
      [] p = "afterTable" ->
           IF At(s, i) # PIPE THEN 0
           ELSE LET m == LineEnd(s, i)
                IN IF /\ m <= Len(s) /\ m - 1 >= i + 2 /\ s[m - 1] = PIPE
                      /\ At(s, m + 1) \notin ({"", PIPE} \cup Whitespace)
                   THEN m + 1
                   ELSE 0
      [] OTHER -> 0

\* what blank pass p puts in place of its match s[i..e]
BlankReplacement(p, s, i, e) ==
    CASE p = "afterSentence" -> <<s[i], LF, LF, PIPE>>
      [] p = "beforeTable" ->
           LET r == RunIn(s, i + 1, {" ", TAB})
           IN <<s[i], LF>> \o SubSeq(s, r + 1, e)
      [] p = "afterTable" -> SubSeq(s, i, e - 1) \o <<LF, s[e]>>
      [] OTHER -> SubSeq(s, i, e)

RECURSIVE BlankReplaceAll(_, _, _)
BlankReplaceAll(p, s, i) ==
    IF i > Len(s) THEN <<>>
    ELSE LET e == BlankMatchEnd(p, s, i)
         IN IF e = 0 THEN <<s[i]>> \o BlankReplaceAll(p, s, i + 1)
            ELSE BlankReplacement(p, s, i, e) \o BlankReplaceAll(p, s, e + 1)

RECURSIVE ApplyBlankPasses(_, _)
ApplyBlankPasses(n, s) ==
    IF n = 0 THEN s ELSE BlankReplaceAll(BlankPasses[n], ApplyBlankPasses(n - 1, s), 1)

\* the replacements after the join
EnsureBlankLines(t) == ApplyBlankPasses(Len(BlankPasses), t)

\* function fixMarkdownTables(text)
FixMarkdownTables(t) == IF t = <<>> THEN <<>> ELSE EnsureBlankLines(MergeLines(t))

\* ---- a table whose rows are split across lines
HeaderRow == <<PIPE, "a", PIPE, "b", PIPE>>
SeparatorRow == <<PIPE, "-", PIPE, "-", PIPE>>
DataRows == {<<PIPE, "x", PIPE, "y", PIPE>>, <<PIPE, "z", ".", PIPE, "w", PIPE>>}

\* the lines a row split after its first cut characters takes (0: one line)
RowLines(r) ==
    IF r.cut = 0 THEN <<r.row>>
    ELSE <<SubSeq(r.row, 1, r.cut), SubSeq(r.row, r.cut + 1, Len(r.row))>>

SplitRows(rows) == {[row |-> row, cut |-> k] : row \in rows, k \in 0..4}

\* the text of a table: the header, the separator row, the data rows
TableText(rs) ==
    JoinLines(RowLines(rs[1]) \o <<SeparatorRow>>
                \o Flatten([n \in 1..(Len(rs) - 1) |-> RowLines(rs[n + 1])]))

TableInit ==
    /\ tableRows \in {<<h>> \o ds : h \in SplitRows({HeaderRow}),
                                    ds \in SeqsUpTo(SplitRows(DataRows), MaxTableRows)}
    /\ tableText = TableText(tableRows)
    /\ mergedText = <<>>
    /\ fixedText = <<>>
    /\ tpc = "merge"

\* fixMarkdownTables up to let fixed = merged.join('\n')
TableMerge ==
    /\ tpc = "merge"
    /\ mergedText' = MergeLines(tableText)
    /\ tpc' = "blank"
    /\ UNCHANGED <<tableRows, tableText, fixedText>>
    /\ UNCHANGED <<repairVars, renderVars>>
    /\ UNCHANGED <<frameVars, dispVars, sessVars, pollVars, discVars, cleanVars, tickVars, barVars, chartVars>>

\* fixMarkdownTables from there to return fixed
TableBlank ==
    /\ tpc = "blank"
    /\ fixedText' = EnsureBlankLines(mergedText)
    /\ tpc' = "done"
    /\ UNCHANGED <<tableRows, tableText, mergedText>>
    /\ UNCHANGED <<repairVars, renderVars>>
    /\ UNCHANGED <<frameVars, dispVars, sessVars, pollVars, discVars, cleanVars, tickVars, barVars, chartVars>>

\* ---- the two passes applied twice
Repair(t) == FixMarkdownTables(CleanHtmlAndUrls(t))

RepairParts ==
    {<<"<">>, <<"<", "x", ">">>, <<"b", ">">>, <<"x", ".">>, <<PIPE>>, <<" ">>, <<LF>>,
     <<PIPE, "-", PIPE>>}

RepairInit ==
    /\ rtext \in {Flatten(ps) : ps \in SeqsUpTo(RepairParts, MaxParts)}
    /\ once = <<>>
    /\ twice = <<>>
    /\ rpc = "start"

RepairOnce ==
    /\ rpc = "start"
    /\ once' = Repair(rtext)
    /\ rpc' = "once"
    /\ UNCHANGED <<rtext, twice>>
    /\ UNCHANGED <<tableVars, renderVars>>
    /\ UNCHANGED <<frameVars, dispVars, sessVars, pollVars, discVars, cleanVars, tickVars, barVars, chartVars>>

RepairTwice ==
    /\ rpc = "once"
    /\ twice' = Repair(once)
    /\ rpc' = "twice"
    /\ UNCHANGED <<rtext, once>>
    /\ UNCHANGED <<tableVars, renderVars>>
    /\ UNCHANGED <<frameVars, dispVars, sessVars, pollVars, discVars, cleanVars, tickVars, barVars, chartVars>>

\* ---- the renderers of markdown
Renderers == {"renderMarkdown", "renderMarkdownEnhanced", "reportRenderMarkdown"}

BR == "<br>"
PARAGRAPH == "</p><p>"

\* .replace(/\n\n/g, '</p><p>')
RECURSIVE Paragraphs(_)
Paragraphs(t) ==
    IF t = <<>> THEN <<>>
    ELSE IF Len(t) >= 2 /\ t[1] = LF /\ t[2] = LF
         THEN <<PARAGRAPH>> \o Paragraphs(SubSeq(t, 3, Len(t)))
         ELSE <<Head(t)>> \o Paragraphs(Tail(t))

\* .replace(/\n/g, '<br>')
LineBreaks(t) == [n \in 1..Len(t) |-> IF t[n] = LF THEN BR ELSE t[n]]

\* of the conversion to HTML, the replacements of the line ends
Convert(r, t) ==
    CASE r = "renderMarkdown" -> Paragraphs(t)
      [] r = "renderMarkdownEnhanced" -> LineBreaks(Paragraphs(t))
      [] OTHER -> LineBreaks(t)

RenderParts == {<<"x">>, <<"<", "b", ">">>, <<PIPE>>, <<LF>>}

RenderInit ==
    /\ renderer \in Renderers
    /\ rendered \in {Flatten(ps) : ps \in SeqsUpTo(RenderParts, MaxParts)}
    /\ applied = <<>>

\* cleanHtmlAndUrls(text), the first statement after if (!text) return ''
RenderClean ==
    /\ rendered # <<>>
    /\ applied = <<>>
    /\ rendered' = CleanHtmlAndUrls(rendered)
    /\ applied' = <<"cleanHtmlAndUrls">>
    /\ UNCHANGED renderer
    /\ UNCHANGED <<tableVars, repairVars>>
    /\ UNCHANGED <<frameVars, dispVars, sessVars, pollVars, discVars, cleanVars, tickVars, barVars, chartVars>>

\* cleanedText = fixMarkdownTables(cleanedText): renderMarkdownEnhanced has no such statement
RenderFixTables ==
    /\ renderer # "renderMarkdownEnhanced"
    /\ applied = <<"cleanHtmlAndUrls">>
    /\ rendered' = FixMarkdownTables(rendered)
    /\ applied' = Append(applied, "fixMarkdownTables")
    /\ UNCHANGED renderer
    /\ UNCHANGED <<tableVars, repairVars>>
    /\ UNCHANGED <<frameVars, dispVars, sessVars, pollVars, discVars, cleanVars, tickVars, barVars, chartVars>>

\* the replacements that make HTML of the text
RenderConvert ==
    /\ applied = IF renderer = "renderMarkdownEnhanced"
                 THEN <<"cleanHtmlAndUrls">>
                 ELSE <<"cleanHtmlAndUrls", "fixMarkdownTables">>
    /\ rendered' = Convert(renderer, rendered)
    /\ applied' = Append(applied, "convert")
    /\ UNCHANGED renderer
    /\ UNCHANGED <<tableVars, repairVars>>
    /\ UNCHANGED <<frameVars, dispVars, sessVars, pollVars, discVars, cleanVars, tickVars, barVars, chartVars>>

\* ------------------------------------------------------------------ calculateYTicks
\* Numbers are exact, in ten-thousandths: 1 is Pow10(4), 0.01 is Pow10(2).

RECURSIVE Pow10(_)
Pow10(j) == IF j = 0 THEN 1 ELSE 10 * Pow10(j - 1)

\* Math.pow(10, Math.floor(Math.log10(roughStep))), roughStep = max / (count - 1)
Magnitude(max, count) ==
    Pow10(CHOOSE j \in 0..6 :
              Pow10(j) * (count - 1) <= max /\ max < Pow10(j + 1) * (count - 1))

\* residual = roughStep / magnitude against 1.5, 3 and 7
NiceStep(max, count) ==
    LET magnitude == Magnitude(max, count)
        roughStep2 == 2 * max              \* 2 * roughStep * (count - 1)
        unit2 == magnitude * (count - 1)   \* magnitude / 2, on the same scale
    IN  IF roughStep2 <= 3 * unit2 THEN 1 * magnitude
        ELSE IF roughStep2 <= 6 * unit2 THEN 2 * magnitude
        ELSE IF roughStep2 <= 14 * unit2 THEN 5 * magnitude
        ELSE 10 * magnitude

\* Math.round(x * 100) / 100: to the nearest hundredth, a half upwards
RoundHundredths(x) == ((x + Pow10(2) \div 2) \div Pow10(2)) * Pow10(2)

\* ticks.push(Math.round(i * niceStep * 100) / 100)
Tick(i, step) == RoundHundredths(i * step)

\* max is n hundredths or n units
TicksInit ==
    /\ tmax \in {n * u : n \in 1..MaxTickMax, u \in {Pow10(2), Pow10(4)}}
    /\ tcount \in 2..MaxTickCount
    /\ niceStep = 0
    /\ ticks = <<>>

\* up to the loop: range, roughStep, magnitude, residual, niceStep
TickStep ==
    /\ niceStep = 0
    /\ niceStep' = NiceStep(tmax - 0, tcount)
    /\ UNCHANGED <<tmax, tcount, ticks>>
    /\ UNCHANGED <<frameVars, dispVars, sessVars, pollVars, discVars, cleanVars, barVars, mdVars, chartVars>>

\* one iteration of for (let i = 0; i < count; i++)
TickPush ==
    /\ niceStep # 0
    /\ Len(ticks) < tcount
    /\ ticks' = Append(ticks, Tick(Len(ticks), niceStep))
    /\ UNCHANGED <<tmax, tcount, niceStep>>
    /\ UNCHANGED <<frameVars, dispVars, sessVars, pollVars, discVars, cleanVars, barVars, mdVars, chartVars>>

\* ------------------------------------------------------------------ the bar chart paths
\* A row is [x, xnull, y]: the value of the x field (xnull: it is null) and the
\* number parseFloat gives for the first y field.

\* CHART_CONFIG.maxBarItems
MaxBarItems == 20
\* sortedData.length > 25 ? ... .slice(0, 20) : sortedData
BarOptionThreshold == 25
BarOptionKeep == 20

\* the comparator of sortChartData for numbers: a row without x goes last
XBefore(a, b) == ~a.xnull /\ (b.xnull \/ a.x < b.x)

\* (a, b) => vb - va
YBefore(a, b) == a.y > b.y

\* the comparator the rows are sorted by
Before(a, b, by) == IF by = "x" THEN XBefore(a, b) ELSE YBefore(a, b)

\* Array.prototype.sort, stable: the place each row takes, after the rows that
\* go before it and the earlier rows it does not go before
RankOf(rows, by) ==
    [i \in 1..Len(rows) |->
        1 + Cardinality({j \in 1..Len(rows) :
                            \/ Before(rows[j], rows[i], by)
                            \/ j < i /\ ~Before(rows[i], rows[j], by)})]

SortRows(rows, by) ==
    CHOOSE out \in {[k \in 1..Len(rows) |-> rows[CHOOSE i \in 1..Len(rows) : rank[i] = k]] :
                       rank \in {RankOf(rows, by)}} : TRUE

\* sortChartData(data, xField)
SortChartData(data) == IF data = <<>> THEN data ELSE SortRows(data, "x")

\* Array.prototype.slice(0, n)
Slice(rows, n) == SubSeq(rows, 1, IF Len(rows) < n THEN Len(rows) ELSE n)

\* data.filter(d => d[xField] != null && ...)
ValidData(data) == SelectSeq(data, LAMBDA d : ~d.xnull)

\* renderBarChart: displayData
RenderBarChartDisplay(sorted) ==
    IF Len(sorted) > MaxBarItems THEN Slice(SortRows(sorted, "y"), MaxBarItems)
    ELSE sorted

\* buildBarOption: displayData
BuildBarOptionDisplay(sorted) ==
    IF Len(sorted) > BarOptionThreshold THEN Slice(SortRows(sorted, "y"), BarOptionKeep)
    ELSE sorted

\* the rows of a chart: n rows, the x values a rotation of 1..n, the y values
\* rising, falling or repeating, the last row without x or not
BarRows(n, r, shape, lastNull) ==
    [i \in 1..n |->
        [x |-> ((i - 1 + r) % n) + 1,
         xnull |-> (lastNull /\ i = n),
         y |-> CASE shape = "up" -> i
                 [] shape = "down" -> n + 1 - i
                 [] OTHER -> i % 3]]

BarInit ==
    /\ barPath \in {"renderBarChart", "buildBarOption"}
    /\ barData \in {BarRows(n, r, shape, lastNull) :
                       n \in 0..MaxRows, r \in 0..2,
                       shape \in {"up", "down", "ties"}, lastNull \in BOOLEAN}
    /\ sortedData = <<>>
    /\ displayData = <<>>
    /\ bpc = "sort"

\* const sortedData = sortChartData(...)
BarSort ==
    /\ bpc = "sort"
    /\ sortedData' = IF barPath = "buildBarOption"
                      THEN SortChartData(ValidData(barData))
                      ELSE SortChartData(barData)
    /\ bpc' = "limit"
    /\ UNCHANGED <<barPath, barData, displayData>>
    /\ UNCHANGED <<frameVars, dispVars, sessVars, pollVars, discVars, cleanVars, tickVars, mdVars, chartVars>>

\* displayData
BarLimit ==
    /\ bpc = "limit"
    /\ displayData' = IF barPath = "buildBarOption"
                       THEN BuildBarOptionDisplay(sortedData)
                       ELSE RenderBarChartDisplay(sortedData)
    /\ bpc' = "done"
    /\ UNCHANGED <<barPath, barData, sortedData>>
    /\ UNCHANGED <<frameVars, dispVars, sessVars, pollVars, discVars, cleanVars, tickVars, mdVars, chartVars>>

\* ------------------------------------------------------------------ the line chart paths
\* CHART_CONFIG.maxLineItems
MaxLineItems == 30
\* sortedData.slice(0, 100)
LineOptionKeep == 100

\* Math.ceil(a / b)
CeilDiv(a, b) == (a + b - 1) \div b

\* sortedData.filter((_, i) => i % step === 0)
EveryNth(rows, step) ==
    [k \in 1..CeilDiv(Len(rows), step) |-> rows[(k - 1) * step + 1]]

\* renderLineChart: displayData
RenderLineChartDisplay(sorted) ==
    IF Len(sorted) > MaxLineItems
    THEN Slice(EveryNth(sorted, CeilDiv(Len(sorted), MaxLineItems)), MaxLineItems)
    ELSE sorted

\* buildLineOption: displayData
BuildLineOptionDisplay(sorted) == Slice(sorted, LineOptionKeep)

LineInit ==
    /\ linePath \in {"renderLineChart", "buildLineOption"}
    /\ lineData \in {BarRows(n, r, shape, FALSE) :
                        n \in 0..MaxLineRows, r \in 0..1, shape \in {"up", "down"}}
    /\ lineSorted = <<>>
    /\ lineDisplay = <<>>
    /\ lpc = "sort"

\* const sortedData = sortChartData(...)
LineSort ==
    /\ lpc = "sort"
    /\ lineSorted' = IF linePath = "buildLineOption"
                      THEN SortChartData(ValidData(lineData))
                      ELSE SortChartData(lineData)
    /\ lpc' = "sample"
    /\ UNCHANGED <<linePath, lineData, lineDisplay>>
    /\ UNCHANGED <<axisVars, dualVars, pieVars, fieldVars>>
    /\ UNCHANGED <<frameVars, dispVars, sessVars, pollVars, discVars, cleanVars, tickVars, barVars, mdVars>>

\* displayData
LineSample ==
    /\ lpc = "sample"
    /\ lineDisplay' = IF linePath = "buildLineOption"
                       THEN BuildLineOptionDisplay(lineSorted)
                       ELSE RenderLineChartDisplay(lineSorted)
    /\ lpc' = "done"
    /\ UNCHANGED <<linePath, lineData, lineSorted>>
    /\ UNCHANGED <<axisVars, dualVars, pieVars, fieldVars>>
    /\ UNCHANGED <<frameVars, dispVars, sessVars, pollVars, discVars, cleanVars, tickVars, barVars, mdVars>>

\* ------------------------------------------------------------------ the y axis
\* A value is [num, v]: d[f] parses to the number v, or (num false) to NaN.

\* CHART_CONFIG.maxYAxisPadding, in hundredths
MaxYAxisPadding == 112
\* maxValue * CHART_CONFIG.maxYAxisPadding || 100
DefaultMaxValue == 100
\* Math.max(..., 1)
LeastMaxValue == 1
\* CHART_CONFIG.gridLines
GridLines == 5

\* parseFloat(d[f]) || 0
ParseFloatOrZero(val) == IF val.num THEN val.v ELSE 0

\* Math.abs
Abs(n) == IF n < 0 THEN 0 - n ELSE n

\* the largest member of a set of numbers
Max(S) == CHOOSE n \in S : \A m \in S : m <= n

\* let maxValue = 0; ... if (val > maxValue) maxValue = val;
\* maxValue = maxValue * CHART_CONFIG.maxYAxisPadding || 100
SvgMaxValue(values) ==
    LET largest == Max({0} \cup {Abs(ParseFloatOrZero(values[n])) : n \in 1..Len(values)})
    IN IF largest * MaxYAxisPadding = 0 THEN DefaultMaxValue * Pow10(4)
       ELSE largest * MaxYAxisPadding * Pow10(2)

\* Math.max(...data.map(d => parseFloat(d[yField]) || 0), 1)
EnhancedMaxValue(values) ==
    Max({LeastMaxValue} \cup {ParseFloatOrZero(values[n]) : n \in 1..Len(values)}) * Pow10(4)

\* function calculateYTicks(min, max, count), min 0
CalculateYTicks(max, count) == [i \in 1..count |-> Tick(i - 1, NiceStep(max, count))]

SvgPaths ==
    {"renderBarChart", "renderLineChart", "renderDualAxisChart primary",
     "renderDualAxisChart secondary"}

AxisValues == [num : {TRUE}, v : {-57, 0, 5, 57, 100}] \cup [num : {FALSE}, v : {0}]

AxisInit ==
    /\ axPath \in SvgPaths \cup {"renderBarChartEnhanced"}
    /\ axValues \in UNION {[1..n -> AxisValues] : n \in 1..MaxAxisValues}
    /\ maxValue = 0
    /\ yTicks = <<>>
    /\ apc = "max"

\* the domain of the axis
AxisMax ==
    /\ apc = "max"
    /\ maxValue' = IF axPath \in SvgPaths THEN SvgMaxValue(axValues)
                    ELSE EnhancedMaxValue(axValues)
    /\ apc' = "ticks"
    /\ UNCHANGED <<axPath, axValues, yTicks>>
    /\ UNCHANGED <<lineVars, dualVars, pieVars, fieldVars>>
    /\ UNCHANGED <<frameVars, dispVars, sessVars, pollVars, discVars, cleanVars, tickVars, barVars, mdVars>>

\* const yTicks = calculateYTicks(0, maxValue, CHART_CONFIG.gridLines); the
\* charts of renderBarChartEnhanced have no ticks
AxisTicks ==
    /\ apc = "ticks"
    /\ yTicks' = IF axPath \in SvgPaths THEN CalculateYTicks(maxValue, GridLines) ELSE <<>>
    /\ apc' = "done"
    /\ UNCHANGED <<axPath, axValues, maxValue>>
    /\ UNCHANGED <<lineVars, dualVars, pieVars, fieldVars>>
    /\ UNCHANGED <<frameVars, dispVars, sessVars, pollVars, discVars, cleanVars, tickVars, barVars, mdVars>>

\* ------------------------------------------------------------------ the dual-axis chart paths
\* A data source is [axis, x, y]: "" is an absent axis or x_axis; y is y_axis.

\* Object.keys(data[0]): m holds strings, v and w numbers
DataKeys == <<"m", "v", "w">>

IsKey(f) == \E n \in 1..Len(DataKeys) : DataKeys[n] = f

\* fields.filter(f => dataKeys.includes(f))
KnownFields(fields) == SelectSeq(fields, IsKey)

Sources == [axis : {"", "primary", "secondary"}, x : {"", "m", "q"},
            y : {<<>>, <<"v">>, <<"w">>, <<"zz">>}]

\* the y fields of the sources of one axis, in order (ds.axis || 'primary')
RECURSIVE FieldsOf(_, _)
FieldsOf(sources, axis) ==
    IF sources = <<>> THEN <<>>
    ELSE (IF (IF Head(sources).axis = "" THEN "primary" ELSE Head(sources).axis) = axis
          THEN Head(sources).y ELSE <<>>) \o FieldsOf(Tail(sources), axis)

\* if (x) xField = x, for every source
RECURSIVE LastX(_, _)
LastX(sources, x) ==
    IF sources = <<>> THEN x
    ELSE LastX(Tail(sources), IF Head(sources).x # "" THEN Head(sources).x ELSE x)

\* dataSources.find(ds => ds.axis === axis) || dataSources[n]
FindSource(sources, axis, n) ==
    IF \E k \in 1..Len(sources) : sources[k].axis = axis
    THEN sources[CHOOSE k \in 1..Len(sources) :
                     sources[k].axis = axis /\ \A h \in 1..(k - 1) : sources[h].axis # axis]
    ELSE sources[n]

\* y_axis?.[0] as a list of no or one field
FirstField(fields) == IF fields = <<>> THEN <<>> ELSE <<fields[1]>>

DualPaths == {"renderDualAxisChart", "buildDualAxisOption", "appRenderDualAxisChart"}

DualInit ==
    /\ dualPath \in DualPaths
    /\ dataSources \in SeqsUpTo(Sources, MaxSources)
    /\ xField = ""
    /\ primaryFields = <<>>
    /\ secondaryFields = <<>>
    /\ layout = ""
    /\ dualpc = "groups"

\* from const dataSources to the fields of the two axes as the config names them
DualGroups ==
    /\ dualpc = "groups"
    /\ IF dualPath = "buildDualAxisOption"
       THEN /\ xField' = LastX(dataSources, "")
            /\ primaryFields' = FieldsOf(dataSources, "primary")
            /\ secondaryFields' = FieldsOf(dataSources, "secondary")
            /\ layout' = IF FieldsOf(dataSources, "secondary") = <<>> THEN "bar" ELSE ""
       ELSE IF Len(dataSources) < 2
       THEN /\ layout' = "bar"
            /\ UNCHANGED <<xField, primaryFields, secondaryFields>>
       ELSE IF dualPath = "renderDualAxisChart"
       THEN /\ xField' = dataSources[1].x
            /\ primaryFields' = dataSources[1].y
            /\ secondaryFields' = dataSources[2].y
            /\ layout' = ""
       ELSE /\ xField' = FindSource(dataSources, "primary", 1).x
            /\ primaryFields' = FirstField(FindSource(dataSources, "primary", 1).y)
            /\ secondaryFields' = FirstField(FindSource(dataSources, "secondary", 2).y)
            /\ layout' = ""
    /\ dualpc' = IF layout' = "bar" THEN "done" ELSE "layout"
    /\ UNCHANGED <<dualPath, dataSources>>
    /\ UNCHANGED <<lineVars, axisVars, pieVars, fieldVars>>
    /\ UNCHANGED <<frameVars, dispVars, sessVars, pollVars, discVars, cleanVars, tickVars, barVars, mdVars>>

\* the fields checked against the keys of the first row, and the layout chosen
DualLayout ==
    /\ dualpc = "layout"
    /\ CASE dualPath = "renderDualAxisChart" ->
              /\ xField' = IF xField # "" /\ ~IsKey(xField) THEN DataKeys[1] ELSE xField
              /\ primaryFields' = KnownFields(primaryFields)
              /\ secondaryFields' = KnownFields(secondaryFields)
              /\ layout' = IF xField' = "" \/ primaryFields' = <<>> \/ secondaryFields' = <<>>
                            THEN "bar" ELSE "dual"
         [] dualPath = "buildDualAxisOption" ->
              /\ xField' = IF xField = "" THEN DataKeys[1] ELSE xField
              /\ primaryFields' = KnownFields(primaryFields)
              /\ secondaryFields' = KnownFields(secondaryFields)
              /\ layout' = IF primaryFields' = <<>> /\ secondaryFields' = <<>>
                            THEN "bar" ELSE "dual"
         [] OTHER ->
              /\ layout' = IF xField = "" \/ primaryFields = <<>> THEN "bar" ELSE "dual"
              /\ UNCHANGED <<xField, primaryFields, secondaryFields>>
    /\ dualpc' = "done"
    /\ UNCHANGED <<dualPath, dataSources>>
    /\ UNCHANGED <<lineVars, axisVars, pieVars, fieldVars>>
    /\ UNCHANGED <<frameVars, dispVars, sessVars, pollVars, discVars, cleanVars, tickVars, barVars, mdVars>>

\* ------------------------------------------------------------------ the pie chart paths
\* sortedData.slice(0, 8) of renderPieChart
PieTop == 8
\* .slice(0, 10) of buildPieOption
PieOptionTop == 10
\* data.slice(0, 8) of renderPieChartEnhanced
EnhancedPieTop == 8

\* data.reduce((sum, d) => sum + (parseFloat(d[valueField]) || 0), 0)
RECURSIVE Total(_)
Total(rows) == IF rows = <<>> THEN 0 ELSE Head(rows).y + Total(Tail(rows))

\* displayData.map(...): value, and percentage and angle as multiples of 1 / total
Segments(rows) ==
    [n \in 1..Len(rows) |->
        [value |-> rows[n].y, percentage |-> rows[n].y * 100, angle |-> rows[n].y * 360]]

PiePaths == {"renderPieChart", "buildPieOption", "renderPieChartEnhanced"}

\* the rows of a pie chart: n rows of rising, falling, repeating or zero values
PieRows(n, shape) ==
    [i \in 1..n |->
        [x |-> i, xnull |-> FALSE,
         y |-> CASE shape = "up" -> i
                 [] shape = "down" -> n + 1 - i
                 [] shape = "ties" -> i % 3
                 [] OTHER -> 0]]

PieInit ==
    /\ piePath \in PiePaths
    /\ pieData \in {PieRows(n, shape) : n \in 1..MaxPieRows,
                                          shape \in {"up", "down", "ties", "zeros"}}
    /\ pieTotal = 0
    /\ pieDisplay = <<>>
    /\ segments = <<>>
    /\ pieReport = ""
    /\ ppc = "start"

\* renderPieChart: total and the two early returns; buildPieOption: sortedData;
\* renderPieChartEnhanced: displayData
PieStart ==
    /\ ppc = "start"
    /\ CASE piePath = "renderPieChart" ->
              /\ pieTotal' = Total(pieData)
              /\ pieReport' = IF Total(pieData) = 0 THEN "no-data"
                               ELSE IF Len(pieData) = 1 THEN "insufficient" ELSE ""
              /\ UNCHANGED pieDisplay
         [] piePath = "buildPieOption" ->
              /\ pieDisplay' = Slice(SortRows(pieData, "y"), PieOptionTop)
              /\ UNCHANGED <<pieTotal, pieReport>>
         [] OTHER ->
              /\ pieDisplay' = Slice(pieData, EnhancedPieTop)
              /\ UNCHANGED <<pieTotal, pieReport>>
    /\ ppc' = IF pieReport' = "" THEN "finish" ELSE "done"
    /\ UNCHANGED <<piePath, pieData, segments>>
    /\ UNCHANGED <<lineVars, axisVars, dualVars, fieldVars>>
    /\ UNCHANGED <<frameVars, dispVars, sessVars, pollVars, discVars, cleanVars, tickVars, barVars, mdVars>>

\* renderPieChart: sortedData, displayData, segments; the other two: total and
\* the slices
PieFinish ==
    /\ ppc = "finish"
    /\ IF piePath = "renderPieChart"
       THEN /\ pieDisplay' = Slice(SortRows(pieData, "y"), PieTop)
            /\ UNCHANGED pieTotal
       ELSE /\ pieTotal' = Total(pieDisplay)
            /\ UNCHANGED pieDisplay
    /\ segments' = Segments(pieDisplay')
    /\ pieReport' = "rendered"
    /\ ppc' = "done"
    /\ UNCHANGED <<piePath, pieData>>
    /\ UNCHANGED <<lineVars, axisVars, dualVars, fieldVars>>
    /\ UNCHANGED <<frameVars, dispVars, sessVars, pollVars, discVars, cleanVars, tickVars, barVars, mdVars>>

\* ------------------------------------------------------------------ the fields of a chart
\* A key of the first row is [k, type, timeLike]: its name, the typeof of its
\* value, and whether /年|date|year|month|time/i matches the name.

FirstRows ==
    {<<[k |-> "m", type |-> "number", timeLike |-> FALSE],
       [k |-> "v", type |-> "number", timeLike |-> FALSE]>>,
     <<[k |-> "name", type |-> "string", timeLike |-> FALSE],
       [k |-> "date", type |-> "string", timeLike |-> TRUE],
       [k |-> "v", type |-> "number", timeLike |-> FALSE]>>,
     <<[k |-> "name", type |-> "string", timeLike |-> FALSE],
       [k |-> "v", type |-> "number", timeLike |-> FALSE],
       [k |-> "w", type |-> "number", timeLike |-> FALSE]>>}

FieldNames == {"m", "name", "v", "zz"}

\* keys.includes(f)
HasKey(row, f) == \E n \in 1..Len(row) : row[n].k = f

\* keys.find(test), "" when undefined; found holds the places that pass the test
FindKey(row, found) ==
    IF found = {} THEN "" ELSE row[CHOOSE n \in found : \A h \in found : n <= h].k

\* the places of the keys of strings, and of numbers
StringKeys(row) == {n \in 1..Len(row) : row[n].type = "string"}
NumberKeys(row) == {n \in 1..Len(row) : row[n].type = "number"}

\* Array.from(new Set(fields))
RECURSIVE Distinct(_)
Distinct(fields) ==
    IF fields = <<>> THEN <<>>
    ELSE LET front == Distinct(SubSeq(fields, 1, Len(fields) - 1))
             last == fields[Len(fields)]
         IN IF \E n \in 1..Len(front) : front[n] = last THEN front ELSE Append(front, last)

\* the names of these keys, in order
KeysOf(kept) == [n \in 1..Len(kept) |-> kept[n].k]

\* parseChartFields: xField
ParseXField(row, x) ==
    IF x = "" \/ ~HasKey(row, x)
    THEN LET timeKey == FindKey(row, {n \in 1..Len(row) :
                                           row[n].timeLike /\ row[n].type # "number"})
             stringKey == FindKey(row, StringKeys(row))
         IN IF timeKey # "" THEN timeKey
            ELSE IF stringKey # "" THEN stringKey
            ELSE row[1].k
    ELSE x

\* parseChartFields: yFields
ParseYFields(row, x, y) ==
    LET known == SelectSeq(Distinct(y), LAMBDA f : HasKey(row, f))
    IN IF known = <<>>
       THEN KeysOf(SelectSeq(row, LAMBDA e : e.k # x /\ e.type = "number"))
       ELSE known

\* renderAutoChart: labelField
AutoLabelField(row) ==
    LET label == FindKey(row, (1..Len(row)) \ NumberKeys(row))
    IN IF label = "" THEN row[1].k ELSE label

\* renderAutoChart: valueField
AutoValueField(row) ==
    LET value == FindKey(row, NumberKeys(row))
    IN IF value # "" THEN value
       ELSE IF Len(row) >= 2 THEN row[2].k ELSE row[1].k

\* renderChartByTypeEnhanced: !xAxis || yAxis.length === 0, or no data source
UsesAutoChart(n) == n.x = "" \/ n.y = <<>>

FieldInit ==
    /\ fieldPath \in {"parseChartFields", "renderChartByTypeEnhanced"}
    /\ firstRow \in FirstRows
    /\ named \in [x : FieldNames \cup {""}, y : SeqsUpTo(FieldNames, MaxNamed)]
    /\ resolvedX = ""
    /\ resolvedY = <<>>
    /\ rfpc = "x"

\* the x field
FieldX ==
    /\ rfpc = "x"
    /\ resolvedX' = IF fieldPath = "parseChartFields" THEN ParseXField(firstRow, named.x)
                     ELSE IF UsesAutoChart(named) THEN AutoLabelField(firstRow)
                     ELSE named.x
    /\ rfpc' = "y"
    /\ UNCHANGED <<fieldPath, firstRow, named, resolvedY>>
    /\ UNCHANGED <<lineVars, axisVars, dualVars, pieVars>>
    /\ UNCHANGED <<frameVars, dispVars, sessVars, pollVars, discVars, cleanVars, tickVars, barVars, mdVars>>

\* the y fields
FieldY ==
    /\ rfpc = "y"
    /\ resolvedY' = IF fieldPath = "parseChartFields"
                     THEN ParseYFields(firstRow, resolvedX, named.y)
                     ELSE IF UsesAutoChart(named) THEN <<AutoValueField(firstRow)>>
                     ELSE named.y
    /\ rfpc' = "done"
    /\ UNCHANGED <<fieldPath, firstRow, named, resolvedX>>
    /\ UNCHANGED <<lineVars, axisVars, dualVars, pieVars>>
    /\ UNCHANGED <<frameVars, dispVars, sessVars, pollVars, discVars, cleanVars, tickVars, barVars, mdVars>>

\* ------------------------------------------------------------------ the polling of the upload status
\* clearInterval(id): of null, or of a timer already cleared, it does nothing
ClearInterval(timers, id) == timers \ {id}

\* what a clearInterval(state.pollingInterval) leaves in lastCancel
Cancelled(by, from) ==
    IF pollingInterval \in activeTimers
    THEN [timer |-> pollingInterval, by |-> by, from |-> from]
    ELSE lastCancel

NoCancel == [timer |-> 0, by |-> "none", from |-> 0]

\* state.pollingInterval is null and nothing is in flight
PollInit ==
    /\ pollingInterval = 0 /\ activeTimers = {} /\ created = 0 /\ uploadsPending = 0
    /\ uploaded = 0 /\ statusRequests = {} /\ lastCancel = NoCancel

\* uploadFiles up to its await of apiUpload
UploadRequest ==
    /\ uploaded < MaxUploads
    /\ uploaded' = uploaded + 1
    /\ uploadsPending' = uploadsPending + 1
    /\ UNCHANGED <<pollingInterval, activeTimers, created, statusRequests, lastCancel>>
    /\ UNCHANGED <<frameVars, dispVars, sessVars, discVars, cleanVars, tickVars, barVars, mdVars, chartVars>>

\* startPollingStatus: the timer there is is cleared and a new one is set
StartPollingStatus ==
    /\ activeTimers' = ClearInterval(activeTimers, pollingInterval) \cup {created + 1}
    /\ lastCancel' = Cancelled("startPollingStatus", 0)
    /\ created' = created + 1
    /\ pollingInterval' = created + 1

\* the upload is answered: uploadFiles goes on to startPollingStatus, or the
\* request has thrown
UploadResponse ==
    /\ uploadsPending > 0
    /\ uploadsPending' = uploadsPending - 1
    /\ \/ StartPollingStatus
       \/ UNCHANGED <<pollingInterval, activeTimers, created, lastCancel>>
    /\ UNCHANGED <<uploaded, statusRequests>>
    /\ UNCHANGED <<frameVars, dispVars, sessVars, discVars, cleanVars, tickVars, barVars, mdVars, chartVars>>

\* a tick of timer t: the callback up to its await of apiCall
PollTick(t) ==
    /\ t \in activeTimers
    /\ Cardinality({r \in statusRequests : r.by = t}) < MaxPolls
    /\ statusRequests' = statusRequests \cup
           {[by |-> t, n |-> 1 + Cardinality({r \in statusRequests : r.by = t})]}
    /\ UNCHANGED <<pollingInterval, activeTimers, created, uploadsPending, uploaded, lastCancel>>
    /\ UNCHANGED <<frameVars, dispVars, sessVars, discVars, cleanVars, tickVars, barVars, mdVars, chartVars>>

\* the callback after its await: with all_ready the timer state.pollingInterval
\* names is cleared
OnStatus(r, all_ready) ==
    IF all_ready
    THEN /\ activeTimers' = ClearInterval(activeTimers, pollingInterval)
         /\ lastCancel' = Cancelled("all_ready", r.by)
         /\ pollingInterval' = 0
    ELSE UNCHANGED <<pollingInterval, activeTimers, lastCancel>>

\* a status request is answered, or has thrown
StatusResponse(r) ==
    /\ r \in statusRequests
    /\ statusRequests' = statusRequests \ {r}
    /\ \/ \E all_ready \in BOOLEAN : OnStatus(r, all_ready)
       \/ UNCHANGED <<pollingInterval, activeTimers, lastCancel>>
    /\ UNCHANGED <<created, uploadsPending, uploaded>>
    /\ UNCHANGED <<frameVars, dispVars, sessVars, discVars, cleanVars, tickVars, barVars, mdVars, chartVars>>

\* clearAll after its request has succeeded, and newSession: if
\* (state.pollingInterval) { clearInterval(...); state.pollingInterval = null }
StopPolling(by) ==
    /\ activeTimers' = ClearInterval(activeTimers, pollingInterval)
    /\ lastCancel' = Cancelled(by, 0)
    /\ pollingInterval' = 0
    /\ UNCHANGED <<created, uploadsPending, uploaded, statusRequests>>
    /\ UNCHANGED <<frameVars, dispVars, sessVars, discVars, cleanVars, tickVars, barVars, mdVars, chartVars>>

ClearAll == StopPolling("clearAll")

NewSessionStopsPolling == StopPolling("newSession")

\* ------------------------------------------------------------------ specifications
\* The parts that a specification does not exercise rest in these states.
FramesIdle ==
    /\ loopKind = "chat" /\ text = <<>> /\ pos = 0 /\ buffer = <<>>
    /\ dispatched = <<>> /\ fpc = "done"

DispIdle ==
    /\ path = "chat"
    /\ draft = FreshDraft /\ sess = FreshSession
    /\ draftR = FreshDraft /\ sessR = UsedSession
    /\ nEvents = MaxEvents /\ errored = FALSE /\ badComplete = FALSE
    /\ clarified = FALSE /\ fold = FreshFold
    /\ draftF = FreshDraft /\ sessF = FreshSession /\ nFrameless = 0

SessIdle ==
    /\ state = SessionStart(NULL) /\ streams = <<>> /\ lastAction = "load"
    /\ lastText = "" /\ lastClar = NoEvent /\ sinceClar = "none"
    /\ sendBtnDisabled = FALSE

DiscIdle ==
    /\ page = "app" /\ insight = <<>> /\ charts = <<>> /\ insightHtml = <<>>
    /\ remainingCharts = <<>> /\ ci = 1 /\ dpc = "done"

CleanIdle ==
    /\ source = <<>> /\ cleaned = <<>> /\ pass = Len(Passes)

TicksIdle ==
    /\ tmax = Pow10(4) /\ tcount = 2 /\ niceStep = Pow10(4)
    /\ ticks = <<0, Pow10(4)>>

BarIdle ==
    /\ barPath = "renderBarChart" /\ barData = <<>> /\ sortedData = <<>>
    /\ displayData = <<>> /\ bpc = "done"

TableIdle ==
    /\ tableRows = <<>> /\ tableText = <<>> /\ mergedText = <<>>
    /\ fixedText = <<>> /\ tpc = "done"

RepairIdle == rtext = <<>> /\ once = <<>> /\ twice = <<>> /\ rpc = "twice"

RenderIdle == renderer = "renderMarkdown" /\ rendered = <<>> /\ applied = <<>>

MdIdle == TableIdle /\ RepairIdle /\ RenderIdle

LineIdle ==
    /\ linePath = "renderLineChart" /\ lineData = <<>> /\ lineSorted = <<>>
    /\ lineDisplay = <<>> /\ lpc = "done"

AxisIdle ==
    /\ axPath = "renderBarChart" /\ axValues = <<>> /\ maxValue = 0
    /\ yTicks = <<>> /\ apc = "done"

DualIdle ==
    /\ dualPath = "renderDualAxisChart" /\ dataSources = <<>> /\ xField = ""
    /\ primaryFields = <<>> /\ secondaryFields = <<>> /\ layout = "bar"
    /\ dualpc = "done"

PieIdle ==
    /\ piePath = "renderPieChart" /\ pieData = <<>> /\ pieTotal = 0
    /\ pieDisplay = <<>> /\ segments = <<>> /\ pieReport = "no-data" /\ ppc = "done"

FieldIdle ==
    /\ fieldPath = "parseChartFields" /\ firstRow = <<>> /\ named = [x |-> "", y |-> <<>>]
    /\ resolvedX = "" /\ resolvedY = <<>> /\ rfpc = "done"

PollIdle == PollInit

ChartsIdle == LineIdle /\ AxisIdle /\ DualIdle /\ PieIdle /\ FieldIdle

PagesIdle == DiscIdle /\ CleanIdle /\ TicksIdle /\ BarIdle /\ MdIdle /\ ChartsIdle /\ PollIdle

\* the chat session: exchanges, clarifications, confirm and cancel
Init == SessionInit /\ FramesIdle /\ DispIdle /\ PagesIdle
Next == SessionNext
Spec == Init /\ [][Next]_vars

\* a read loop fed one stream text in chunks
InitFrames == FramesInit /\ DispIdle /\ SessIdle /\ PagesIdle
FramesNext == ReadChunk \/ ReadDone
SpecFrames == InitFrames /\ [][FramesNext]_vars

\* the dispatcher fed one stream of events
InitDispatch == DispInit /\ FramesIdle /\ SessIdle /\ PagesIdle
DispatchNext == Dispatch
SpecDispatch == InitDispatch /\ [][DispatchNext]_vars

\* renderDiscovery applied to one discovery
InitDiscovery ==
    DiscoveryInit /\ FramesIdle /\ DispIdle /\ SessIdle /\ CleanIdle /\ TicksIdle /\ BarIdle /\ MdIdle /\ ChartsIdle /\ PollIdle
DiscoveryNext == ReplaceStep \/ RemainingStep
SpecDiscovery == InitDiscovery /\ [][DiscoveryNext]_vars

\* cleanHtmlAndUrls applied to one text
InitClean ==
    CleanInit /\ FramesIdle /\ DispIdle /\ SessIdle /\ DiscIdle /\ TicksIdle /\ BarIdle /\ MdIdle /\ ChartsIdle /\ PollIdle
CleanNext == CleanPass
SpecClean == InitClean /\ [][CleanNext]_vars

\* calculateYTicks applied to one range
InitTicks ==
    TicksInit /\ FramesIdle /\ DispIdle /\ SessIdle /\ DiscIdle /\ CleanIdle /\ BarIdle /\ MdIdle /\ ChartsIdle /\ PollIdle
TicksNext == TickStep \/ TickPush
SpecTicks == InitTicks /\ [][TicksNext]_vars

\* the rows a bar chart displays
InitBars ==
    BarInit /\ FramesIdle /\ DispIdle /\ SessIdle /\ DiscIdle /\ CleanIdle /\ TicksIdle /\ MdIdle /\ ChartsIdle /\ PollIdle
BarsNext == BarSort \/ BarLimit
SpecBars == InitBars /\ [][BarsNext]_vars

\* fixMarkdownTables on a table whose rows are split
InitTables ==
    TableInit /\ RepairIdle /\ RenderIdle /\ FramesIdle /\ DispIdle /\ SessIdle
    /\ DiscIdle /\ CleanIdle /\ TicksIdle /\ BarIdle /\ ChartsIdle /\ PollIdle
TablesNext == TableMerge \/ TableBlank
SpecTables == InitTables /\ [][TablesNext]_vars

\* the two passes applied twice
InitRepair ==
    RepairInit /\ TableIdle /\ RenderIdle /\ FramesIdle /\ DispIdle /\ SessIdle
    /\ DiscIdle /\ CleanIdle /\ TicksIdle /\ BarIdle /\ ChartsIdle /\ PollIdle
RepairNext == RepairOnce \/ RepairTwice
SpecRepair == InitRepair /\ [][RepairNext]_vars

\* the renderers of markdown
InitRender ==
    RenderInit /\ TableIdle /\ RepairIdle /\ FramesIdle /\ DispIdle /\ SessIdle
    /\ DiscIdle /\ CleanIdle /\ TicksIdle /\ BarIdle /\ ChartsIdle /\ PollIdle
RenderNext == RenderClean \/ RenderFixTables \/ RenderConvert
SpecRender == InitRender /\ [][RenderNext]_vars

\* the rows a line chart displays
InitLines ==
    LineInit /\ AxisIdle /\ DualIdle /\ PieIdle /\ FieldIdle /\ PollIdle /\ FramesIdle /\ DispIdle /\ SessIdle /\ DiscIdle /\ CleanIdle
    /\ TicksIdle /\ BarIdle /\ MdIdle
LinesNext == LineSort \/ LineSample
SpecLines == InitLines /\ [][LinesNext]_vars

\* the domain and the ticks of a y axis
InitAxis ==
    AxisInit /\ LineIdle /\ DualIdle /\ PieIdle /\ FieldIdle /\ PollIdle /\ FramesIdle /\ DispIdle /\ SessIdle /\ DiscIdle /\ CleanIdle
    /\ TicksIdle /\ BarIdle /\ MdIdle
AxisNext == AxisMax \/ AxisTicks
SpecAxis == InitAxis /\ [][AxisNext]_vars

\* the layout of a dual-axis chart
InitDual ==
    DualInit /\ LineIdle /\ AxisIdle /\ PieIdle /\ FieldIdle /\ PollIdle /\ FramesIdle /\ DispIdle /\ SessIdle /\ DiscIdle
    /\ CleanIdle /\ TicksIdle /\ BarIdle /\ MdIdle
DualNext == DualGroups \/ DualLayout
SpecDual == InitDual /\ [][DualNext]_vars

\* the slices of a pie chart
InitPie ==
    PieInit /\ LineIdle /\ AxisIdle /\ DualIdle /\ FieldIdle /\ PollIdle /\ FramesIdle /\ DispIdle /\ SessIdle
    /\ DiscIdle /\ CleanIdle /\ TicksIdle /\ BarIdle /\ MdIdle
PieNext == PieStart \/ PieFinish
SpecPie == InitPie /\ [][PieNext]_vars

\* the chat session under a transport that settles every request: each fetch
\* resolves or rejects, and each read of a response ends or throws
Settles(i) ==
    /\ WF_vars(i <= Len(streams) /\ Respond(i))
    /\ WF_vars(i <= Len(streams) /\ StreamEnd(i))
\* the events of these streams are a whole clarification and done
LoadingEvent(i) == StreamEvent(i) /\ lastAction' # "content" /\ lastClar' # ClarSparse
LoadingNext ==
    \/ UploadFiles
    \/ NewSession
    \/ SendMessage
    \/ \E i \in 1..Len(streams) : Respond(i)
    \/ \E i \in 1..Len(streams) : LoadingEvent(i)
    \/ \E i \in 1..Len(streams) : StreamEnd(i)
    \/ \E i \in 1..Len(streams) : CancelClarification(i)
    \/ \E i \in 1..Len(streams) : ConfirmClarification(i)
SpecLoading == Init /\ [][LoadingNext]_vars /\ \A i \in 1..MaxStreams : Settles(i)

\* the polling of the upload status
InitPolling ==
    PollInit /\ FramesIdle /\ DispIdle /\ SessIdle /\ DiscIdle /\ CleanIdle /\ TicksIdle
    /\ BarIdle /\ MdIdle /\ ChartsIdle
PollingNext ==
    \/ UploadRequest
    \/ UploadResponse
    \/ \E t \in activeTimers : PollTick(t)
    \/ \E r \in statusRequests : StatusResponse(r)
    \/ ClearAll
    \/ NewSessionStopsPolling
SpecPolling == InitPolling /\ [][PollingNext]_vars

\* the fields of a chart
InitFields ==
    FieldInit /\ LineIdle /\ AxisIdle /\ DualIdle /\ PieIdle /\ PollIdle /\ FramesIdle /\ DispIdle
    /\ SessIdle /\ DiscIdle /\ CleanIdle /\ TicksIdle /\ BarIdle /\ MdIdle
FieldsNext == FieldX \/ FieldY
SpecFields == InitFields /\ [][FieldsNext]_vars

\* ------------------------------------------------------------------ claims on the session

\* a confirm with a non-empty text that finds the clarification pending
ConfirmStep ==
    /\ state.pendingClarification # NoClarification
    /\ lastAction' = "confirm"
    /\ lastText' # ""

\* C2 as stated: after a clarification event, a confirm with a non-empty text
\* sends exactly one new request with a fresh draft, whose original_request,
\* messages_context and tool_call_id are the values the event carried,
\* unchanged, and no clarification is pending afterwards.
C2_Original ==
    [][ConfirmStep =>
          /\ Len(streams') = Len(streams) + 1
          /\ streams'[Len(streams')].draft = FreshDraft
          /\ streams'[Len(streams')].request.original_request
                = Field(lastClar, "original_request")
          /\ streams'[Len(streams')].request.messages_context
                = Field(lastClar, "messages_context")
          /\ streams'[Len(streams')].request.tool_call_id
                = Field(lastClar, "tool_call_id")
          /\ state'.pendingClarification = NoClarification]_vars

\* C2 amended: as C2, the three values being those of the event where the
\* event carries a non-empty value; a missing, null or empty original_request
\* is sent as the empty string, a missing, null or empty messages_context or
\* tool_call_id as null.
C2_ConfirmForwardsContext ==
    [][ConfirmStep =>
          /\ Len(streams') = Len(streams) + 1
          /\ streams'[Len(streams')].draft = FreshDraft
          /\ streams'[Len(streams')].request.original_request
                = OrElse(Field(lastClar, "original_request"), "")
          /\ streams'[Len(streams')].request.messages_context
                = OrElse(Field(lastClar, "messages_context"), NULL)
          /\ streams'[Len(streams')].request.tool_call_id
                = OrElse(Field(lastClar, "tool_call_id"), NULL)
          /\ state'.pendingClarification = NoClarification]_vars

\* A confirm has just sent the context of the clarification event.
C2_Witness ==
    /\ lastAction = "confirm" /\ lastText = "t"
    /\ lastClar = ClarFull
    /\ Len(streams) = 2
    /\ streams[2].kind = "confirm" /\ streams[2].phase = "fetch"
    /\ streams[2].request.original_request = "or1"
    /\ streams[2].request.tool_call_id = "tc1"
    /\ state.pendingClarification = NoClarification

\* C5 as stated: a clarification is pending only if a clarification event was
\* dispatched and no confirm or cancel action occurred since; none is pending
\* initially and immediately after every confirm or cancel.
C5_Original ==
    /\ state.pendingClarification # NoClarification => sinceClar = "open"
    /\ lastAction \in {"load", "confirm", "cancel"}
          => state.pendingClarification = NoClarification

\* C5 amended: a clarification is pending only if a clarification event was
\* dispatched and neither a cancel nor a confirm with a non-empty text occurred
\* since; none is pending initially, immediately after every cancel and
\* immediately after every confirm with a non-empty text.
C5_PendingOnlyBetween ==
    /\ state.pendingClarification # NoClarification
          => sinceClar \in {"open", "emptyOnly"}
    /\ (lastAction \in {"load", "cancel"} \/ (lastAction = "confirm" /\ lastText # ""))
          => state.pendingClarification = NoClarification

\* A cancel has just cleared a pending clarification while its stream is read.
C5_Witness ==
    /\ lastAction = "cancel"
    /\ sinceClar = "closed"
    /\ lastClar # NoEvent
    /\ state.pendingClarification = NoClarification
    /\ \E i \in 1..Len(streams) : streams[i].box

\* a request that answers a clarification is sent in this step
FollowUpSent ==
    /\ Len(streams') = Len(streams) + 1
    /\ streams'[Len(streams')].request.clarification_response # UNDEFINED

\* C16: a clarification becomes pending by a clarification event only; every
\* request that answers a clarification consumes the pending one; a cancel
\* clears it and sends nothing; a confirm that finds none pending sends nothing.
C16_OneFollowUp ==
    [][/\ (state'.pendingClarification # NoClarification
            /\ state'.pendingClarification # state.pendingClarification)
          => lastAction' = "clarification"
       /\ FollowUpSent
          => (state.pendingClarification # NoClarification
              /\ state'.pendingClarification = NoClarification)
       /\ lastAction' = "cancel"
          => (streams' = streams /\ state'.pendingClarification = NoClarification)
       /\ (lastAction' = "confirm" /\ state.pendingClarification = NoClarification)
          => (streams' = streams /\ state' = state)]_vars

\* After a cancel, a confirm with a text has sent nothing: the only request
\* of the session is the one of the message.
C16_Witness ==
    /\ lastAction = "confirm" /\ lastText = "t"
    /\ sinceClar = "closed"
    /\ lastClar # NoEvent
    /\ state.pendingClarification = NoClarification
    /\ Len(streams) = 1
    /\ streams[1].kind = "send" /\ streams[1].box

\* C6: at most one exchange of the session is in flight (waiting for its
\* response or being read) at any time.
C6_OneStreamAtATime ==
    Cardinality({i \in 1..Len(streams) : Active(streams[i])}) <= 1

\* ------------------------------------------------------------------ claims on the dispatcher

\* C3: once an error event has been dispatched, no later event of the stream
\* changes the draft or the session state.
C3_ErrorIsTerminal ==
    [][(path = "chat" /\ errored) => (draft' = draft /\ sess' = sess)]_vars

\* C4: a complete event without report does not replace the stored report,
\* and after it no later event of the stream changes the draft or the stored
\* report.
C4_MissingReportIsTerminal ==
    [][/\ (badComplete' /\ ~badComplete) =>
             (sess'.currentReport = sess.currentReport
                /\ sessR'.currentReport = sessR.currentReport)
       /\ badComplete =>
             (draft' = draft /\ sess'.currentReport = sess.currentReport)]_vars

\* C7: the same events applied to two fresh drafts, the second in a session
\* that earlier exchanges have used, give the same draft.
C7_ReplayIdentical == draftR = draft

\* Both drafts have taken content, a query and a clarification while their
\* sessions differ.
C7_Witness ==
    /\ path = "chat"
    /\ nEvents >= 3
    /\ draft.sql = "q1"
    /\ draft.thinking = <<"a">>
    /\ draft.content # <<>>
    /\ sess.currentReport # sessR.currentReport

\* C15: the draft is the reference fold of the events dispatched so far:
\* thinking, content and analysis are the concatenation of the deltas of their
\* own events, sql and data the whole value of their latest event.
C15_DraftIsFold ==
    path = "chat" =>
        /\ draft.thinking = fold.thinking
        /\ draft.content = fold.content
        /\ draft.analysis = fold.analysis
        /\ draft.sql = fold.sql
        /\ draft.data = fold.data

\* C17: once a clarification event has been dispatched, no later event of the
\* stream changes the thinking, content, analysis, sql or data of the draft.
C17_BlockedAfterClarification ==
    [][(path = "chat" /\ clarified) =>
          /\ draft'.thinking = draft.thinking
          /\ draft'.content = draft.content
          /\ draft'.analysis = draft.analysis
          /\ draft'.sql = draft.sql
          /\ draft'.data = draft.data]_vars

\* C19: the draft and the session state are those of the same stream with its
\* agent_event events and its events of unknown type removed.
C19_FramelessEventsLeaveNoTrace ==
    path = "chat" => (draftF = draft /\ sessF = sess)

\* Agent events and events of unknown type came between content, a query and
\* a clarification.
C19_Witness ==
    /\ path = "chat"
    /\ nFrameless >= 2
    /\ draft.sql = "q2"
    /\ draft.content = <<"[wait]">>
    /\ sess.pendingClarification # NoClarification

\* ------------------------------------------------------------------ claims on the pages

\* how many times the chart charts[c] is rendered in html
RECURSIVE Times(_, _)
Times(c, html) ==
    IF html = <<>> THEN 0
    ELSE (IF Head(html).k = "chart" /\ Head(html).c = c THEN 1 ELSE 0)
         + Times(c, Tail(html))

HasChartFor(name) == \E c \in 1..Len(charts) : charts[c].chart_id = name

\* C9: when renderDiscovery returns, every chart is in the output exactly
\* once, at its token where the insight holds its token and after the insight
\* otherwise, and no token that has a chart is left as text.
C9_EachChartOnce ==
    dpc = "done" =>
        /\ \A c \in 1..Len(charts) : Times(c, Output) = 1
        /\ \A c \in 1..Len(charts) :
              Times(c, insightHtml) = 1
                <=> \E j \in 1..Len(insight) : insight[j] = TokenItem(charts[c].chart_id)
        /\ \A j \in 1..Len(Output) :
              Output[j].k = "token" => ~HasChartFor(Output[j].name)

\* 1, 2 or 5 times a power of ten
NiceSteps == {f * Pow10(j) : f \in {1, 2, 5}, j \in 0..7}

\* C13: calculateYTicks(0, max, count) returns count ticks 0, s, 2s, ...,
\* (count - 1) * s, with s 1, 2 or 5 times a power of ten.
C13_TicksAreMultiplesOfNiceStep ==
    (niceStep # 0 /\ Len(ticks) = tcount) =>
        \E s \in NiceSteps : \A i \in 1..tcount : ticks[i] = (i - 1) * s

\* C11: repairing a repaired text changes nothing: repair(repair(x)) = repair(x),
\* repair being cleanHtmlAndUrls followed by fixMarkdownTables.
C11_RepairIdempotent == rpc = "twice" => twice = once

\* a text without its white space
Unspaced(t) == SelectSeq(t, LAMBDA c : c \notin Whitespace)

\* C12: of a table whose rows, joined, are complete rows of as many columns as
\* the separator row has, fixMarkdownTables returns one block of lines, one per
\* row, each starting and ending with a pipe and holding that many columns, the
\* cells those of the row in their order.
C12_RowsRejoined ==
    tpc = "done" /\ tableRows # <<>> =>
        \E out \in {Split(fixedText, <<LF>>)} :
            /\ Len(out) = Len(tableRows) + 1
            /\ \A n \in 1..Len(out) :
                  /\ StartsWith(out[n], <<PIPE>>)
                  /\ EndsWithPipe(out[n])
                  /\ CountPipes(out[n]) - 1 = CountPipes(SeparatorRow) - 1
            /\ Unspaced(out[1]) = tableRows[1].row
            /\ out[2] = SeparatorRow
            /\ \A n \in 3..Len(out) : Unspaced(out[n]) = tableRows[n - 1].row

\* C20: every renderer applies cleanHtmlAndUrls first, fixMarkdownTables second
\* and converts to HTML only after both.
C20_CleanThenFixThenConvert ==
    \E n \in 0..3 : applied = SubSeq(<<"cleanHtmlAndUrls", "fixMarkdownTables", "convert">>, 1, n)

\* the cap of the path that resolves the line chart
LineCap == IF linePath = "buildLineOption" THEN LineOptionKeep ELSE MaxLineItems

\* C21: a line chart of no more rows than the cap displays them all; of more, it
\* displays the sorted rows at the indices 0, s, 2s, ... for one stride s > 1, at
\* most cap of them and in their order: never the first rows only.
C21_StrideSample ==
    lpc = "done" =>
        IF Len(lineSorted) <= LineCap THEN lineDisplay = lineSorted
        ELSE \E st \in 2..Len(lineSorted) :
                 lineDisplay = Slice(EveryNth(lineSorted, st), LineCap)

\* C22: no displayed row of a bar chart is without a value of the x field, on
\* either path: such rows are removed before the rows are sorted.
C22_NoRowWithoutX ==
    bpc # "sort" =>
        /\ \A n \in 1..Len(sortedData) : ~sortedData[n].xnull
        /\ \A n \in 1..Len(displayData) : ~displayData[n].xnull

\* the largest absolute value of the axis, in units
LargestAbs == Max({0} \cup {Abs(ParseFloatOrZero(axValues[n])) : n \in 1..Len(axValues)})

\* C23: the domain of a y axis ends at 1.12 times the largest absolute value of
\* its fields, at 100 when every value is zero or no number; it is positive and
\* no plotted value lies beyond it.
C23_DomainHasHeadroom ==
    apc # "max" /\ axValues # <<>> =>
        /\ maxValue = IF LargestAbs = 0 THEN 100 * Pow10(4) ELSE LargestAbs * 11200
        /\ maxValue > 0
        /\ \A n \in 1..Len(axValues) :
              Abs(ParseFloatOrZero(axValues[n])) * Pow10(4) <= maxValue

\* C27: no tick of a y axis lies outside the domain [0, maxValue].
C27_TicksInsideDomain ==
    apc = "done" => \A n \in 1..Len(yTicks) : 0 <= yTicks[n] /\ yTicks[n] <= maxValue

\* C24: a dual-axis chart of fewer than two data sources is resolved with the
\* bar layout, and the two-axis layout is chosen only when both axis groups keep
\* a field that is a key of the rows.
C24_DualNeedsBothGroups ==
    dualpc = "done" =>
        /\ layout \in {"bar", "dual"}
        /\ Len(dataSources) < 2 => layout = "bar"
        /\ layout = "dual" =>
              KnownFields(primaryFields) # <<>> /\ KnownFields(secondaryFields) # <<>>

\* the top-N of the path that resolves the pie chart
PieCap ==
    CASE piePath = "renderPieChart" -> PieTop
      [] piePath = "buildPieOption" -> PieOptionTop
      [] OTHER -> EnhancedPieTop

\* C25: a pie chart of one row is reported as lacking data and shows no slice;
\* a pie chart that is rendered shows the rows ranked by value, the largest
\* first, cut to the top N: at least two slices and at most N.
C25_PieNeedsTwoSlices ==
    ppc = "done" =>
        /\ Len(pieData) = 1 =>
              pieReport \in {"insufficient", "no-data"} /\ segments = <<>>
        /\ pieReport = "rendered" =>
              /\ pieDisplay = Slice(SortRows(pieData, "y"), PieCap)
              /\ Len(segments) >= 2 /\ Len(segments) <= PieCap

RECURSIVE SumOf(_, _)
SumOf(segs, field) ==
    IF segs = <<>> THEN 0 ELSE Head(segs)[field] + SumOf(Tail(segs), field)

\* C29: the percentages of the slices renderPieChart displays sum to 100 and
\* their angles to 360, whatever the number of rows.
C29_SlicesFillTheCircle ==
    ppc = "done" /\ piePath = "renderPieChart" /\ pieReport = "rendered"
      /\ Len(pieData) >= 2 /\ pieTotal > 0 =>
        /\ SumOf(segments, "percentage") = 100 * pieTotal
        /\ SumOf(segments, "angle") = 360 * pieTotal

\* C26: the x field named is used when it is a key of the first row, otherwise
\* the first column of strings (the first column when there is none); the y
\* fields named that are keys are used, otherwise the columns of numbers other
\* than x; every field resolved is a key and x is no y field.
C26_FieldsResolved ==
    rfpc = "done" =>
        /\ HasKey(firstRow, resolvedX)
        /\ \A n \in 1..Len(resolvedY) :
              HasKey(firstRow, resolvedY[n]) /\ resolvedY[n] # resolvedX
        /\ HasKey(firstRow, named.x) => resolvedX = named.x
        /\ ~HasKey(firstRow, named.x) =>
              resolvedX = IF StringKeys(firstRow) # {}
                          THEN FindKey(firstRow, StringKeys(firstRow))
                          ELSE firstRow[1].k
        /\ \A n \in 1..Len(named.y) :
              HasKey(firstRow, named.y[n]) => \E h \in 1..Len(resolvedY) : resolvedY[h] = named.y[n]
        /\ (\A n \in 1..Len(named.y) : ~HasKey(firstRow, named.y[n])) =>
              resolvedY = KeysOf(SelectSeq(firstRow,
                                           LAMBDA e : e.k # resolvedX /\ e.type = "number"))

\* C28: once sendMessage has set isLoading, the flag is released and the send
\* button enabled again, however the exchange ends; and while isLoading is set
\* sendMessage sends no request.
C28_LoadingReleased ==
    /\ (lastAction = "send" /\ state.isLoading) ~> (~state.isLoading /\ ~sendBtnDisabled)
    /\ [][state.isLoading =>
            \A i \in 1..Len(streams') : i > Len(streams) => streams'[i].kind # "send"]_vars

C28_ExchangeEnded ==
    /\ ~state.isLoading /\ ~sendBtnDisabled
    /\ \E i \in 1..Len(streams) : streams[i].kind = "send" /\ streams[i].phase = "closed"
    /\ lastAction \in {"ended", "failed"}

\* C30: at most one polling timer is active, and an all_ready response clears
\* an active timer only when the request it answers was issued by that timer.
C30_TimerCancelledByOwnResponse ==
    /\ Cardinality(activeTimers) <= 1
    /\ lastCancel.by \in {"none", "startPollingStatus", "clearAll", "newSession", "all_ready"}
    /\ lastCancel.by = "all_ready" => lastCancel.from = lastCancel.timer

\* how many rows of rows equal row
Copies(row, rows) == Cardinality({i \in 1..Len(rows) : rows[i] = row})

\* C14: a bar chart never displays more than 20 rows; of more than 20 rows it
\* displays exactly 20, in descending order of the first y field, and no row
\* left out has a larger value than a displayed one.
C14_BarCap ==
    bpc = "done" =>
        /\ Len(displayData) <= MaxBarItems
        /\ Len(sortedData) > MaxBarItems =>
              /\ Len(displayData) = MaxBarItems
              /\ \A i \in 1..(Len(displayData) - 1) :
                    displayData[i].y >= displayData[i + 1].y
              /\ \A i \in 1..Len(sortedData) :
                    Copies(sortedData[i], displayData) <= Copies(sortedData[i], sortedData)
              /\ \A i \in 1..Len(sortedData) :
                    Copies(sortedData[i], displayData) = 0
                      => \A j \in 1..Len(displayData) :
                            sortedData[i].y <= displayData[j].y

\* an opening tag (< letter ... >) or a closing tag (</ letters >) stands at i
TagAt(s, i) ==
    /\ At(s, i) = "<"
    /\ \/ At(s, i + 1) \in Letters /\ \E j \in (i + 2)..Len(s) : s[j] = ">"
       \/ /\ At(s, i + 1) = "/"
          /\ \E j \in (i + 3)..Len(s) :
                s[j] = ">" /\ \A h \in (i + 2)..(j - 1) : s[h] \in Letters

\* C10: the text cleanHtmlAndUrls returns holds no opening and no closing tag.
C10_NoTagLeft ==
    pass = Len(Passes) => \A i \in 1..Len(cleaned) : ~TagAt(cleaned, i)

\* ------------------------------------------------------------------ claims on the read loop

\* C1: however the stream text delivered so far was cut into chunks, the chat
\* read loop has dispatched the same ordered events as one iteration fed the
\* whole delivered text as a single chunk.
C1_ChunkingIndependent ==
    loopKind = "chat" =>
        dispatched = ChatChunk(<<>>, SubSeq(text, 1, pos)).events

\* A chunk boundary fell between the two newlines of a delimiter: the frame
\* read so far waits in the buffer and its event is still to be dispatched.
C1_Witness ==
    /\ loopKind = "chat"
    /\ 0 < pos /\ pos < Len(text)
    /\ text[pos] = LF /\ text[pos + 1] = LF
    /\ buffer # <<>>
    /\ Len(ChatChunk(<<>>, text).events) > Len(dispatched)

\* The lines of the complete segments of a text: for the chat loop the segments
\* closed by a blank line, for the report loop the lines closed by a newline.
RECURSIVE SegmentLines(_)
SegmentLines(segs) ==
    IF segs = <<>> THEN <<>> ELSE Split(Head(segs), <<LF>>) \o SegmentLines(Tail(segs))

CompleteLines(kind, t) ==
    IF kind = "chat" THEN SegmentLines(DropLast(Split(t, <<LF, LF>>)))
    ELSE DropLast(Split(t, <<LF>>))

IsDataLine(line) == StartsWith(line, Marker)
PayloadOf(line) == SubSeq(line, Len(Marker) + 1, Len(line))
Parses(line) == PayloadOf(line) # <<"D">> /\ JSONParse(PayloadOf(line)) # "throws"
ParsesToEvent(kind, line) ==
    Parses(line) /\ (kind = "chat" => JSONParse(PayloadOf(line)) # NULL)

DecodedParsed(kind, t) ==
    LET kept == SelectSeq(SelectSeq(CompleteLines(kind, t), IsDataLine), Parses)
    IN  [i \in 1..Len(kept) |-> JSONParse(PayloadOf(kept[i]))]

DecodedEvents(kind, t) ==
    LET Kept(line) == ParsesToEvent(kind, line)
        kept == SelectSeq(SelectSeq(CompleteLines(kind, t), IsDataLine), Kept)
    IN  [i \in 1..Len(kept) |-> JSONParse(PayloadOf(kept[i]))]

\* C8 as stated: the dispatched events are exactly the decoded payloads of the
\* data lines of the complete segments, leaving out the [DONE] payloads and
\* the payloads that fail to parse.
C8_Original == dispatched = DecodedParsed(loopKind, SubSeq(text, 1, pos))

\* C8 amended: as C8, leaving out also the payloads that parse to null (reading
\* the type of null throws inside the same try block); a payload that is
\* skipped does not stop the lines after it.
C8_DispatchedExactly == dispatched = DecodedEvents(loopKind, SubSeq(text, 1, pos))

\* A malformed payload was skipped and a later well-formed one dispatched.
C8_Witness ==
    /\ fpc = "done"
    /\ dispatched # <<>>
    /\ \E i, j \in 1..Len(CompleteLines(loopKind, text)) :
          /\ i < j
          /\ IsDataLine(CompleteLines(loopKind, text)[i])
          /\ PayloadOf(CompleteLines(loopKind, text)[i]) = <<"x">>
          /\ ParsesToEvent(loopKind, CompleteLines(loopKind, text)[j])

\* the events of every data line the server sent, whether or not the segment
\* of the line was closed by the delimiter
SentEvents(kind, t) ==
    LET Kept(line) == ParsesToEvent(kind, line)
        kept == SelectSeq(SelectSeq(Split(t, <<LF>>), IsDataLine), Kept)
    IN  [i \in 1..Len(kept) |-> JSONParse(PayloadOf(kept[i]))]

\* C18: when the stream has ended, every frame the server sent has been
\* dispatched exactly once, in order, the frame left in the buffer included.
C18_NoFrameDropped ==
    fpc = "done" => dispatched = SentEvents(loopKind, text)

====
